---- MODULE Spec2Model ----
(***************************************************************************)
(* Companion Cube: mode scheduler, background timer, category store and    *)
(* text-generation calls, modelled from src-tauri/src/lib.rs and           *)
(* src-tauri/src/modules/*.rs.                                             *)
(*                                                                         *)
(* Time is counted in whole seconds.  now.minute() is (t \div 60) % 60.    *)
(***************************************************************************)
EXTENDS Integers, Sequences, FiniteSets, TLC

\* ------------------------------------------------------------------ bounds
\* The instants (seconds since the timer task started, on a whole hour) at
\* which anything happens: minute 0, minute 1, minute 5, minutes 15 and 16.
Instants == {0, 30, 60, 300, 900, 930, 960}
\* At most MaxEpoch mode switches are started in one behaviour.
MaxEpoch == 1
\* Longest backend reply text, in tokens.
MaxTextLen == 3
\* The clock of the text-generation callers runs for MaxHalfSeconds steps.
MaxHalfSeconds == 5
\* Batches of one categorize_all_apps call.
MaxBatches == 2
\* Most events in the recent timeframe, and most whole minutes of one event.
MaxActivities == 3
MaxMinutes == 3
\* Timestamps of events are 0..MaxTime - 1 seconds, a window event lasts up
\* to MaxTime seconds, an idle event up to MaxAfkSeconds; at most MaxAfk
\* idle events are returned.
MaxTime == 4
MaxAfkSeconds == 2
MaxAfk == 2
\* Most fragments in an app identifier.
MaxFragments == 2
\* Most apps the activities table holds.
MaxStoredApps == 11
\* Most window events of a timeframe.
MaxStatEvents == 3
\* Most concurrent callers of the pattern analyzer.
MaxCallers == 2
\* Most window events handed to the session detector.
MaxEvents == 3

\* ------------------------------------------------------ program constants
TickPeriod == 60
GuardSeconds == 60
SecondsPerMinute == 60
MinutesPerHour == 60
StudyEvery == 5
CoachEvery == 15
HourlyInterval == 60
\* Timeouts of the HTTP clients, seconds.
AwTimeout == 15
OllamaTimeout == 30
OllamaTestTimeout == 10
\* productivity_score.unwrap_or(50)
DefaultScore == 50
\* Apps of one categorization request.
BatchSize == 10
\* Data points train_baseline needs.
MinTrainingPoints == 1000
\* The score build_detailed_timeline gives an app without a category.
UncategorizedScore == 50
\* Minimum spacing of call_ollama_api_with_rate_limit, seconds.
RateLimitSeconds == 2
\* The pause of categorize_all_apps between two batches, milliseconds.
BatchPauseMs == 500
MsPerSecond == 1000

\* Option::None of a last-run timestamp (times.get(mode) on a missing key).
NoTime == -1

Modes == {"ghost", "chill", "study_buddy", "coach"}
\* set_mode takes any string; "zen" stands for every string that is no mode.
ModeInputs == Modes \cup {"zen"}
\* The tray menu offers exactly the four modes.
MenuModes == Modes

Procs == {"timer", "cmd"}

\* Awaited outbound calls of a cycle, by the client that sends them.
AwCalls == {"aw_test", "fetch", "activity", "webhook"}
OllamaCalls == {"ollama", "ollama_todo"}
Calls == AwCalls \cup OllamaCalls \cup {"ollama_test"}

\* A backend reply, token by token: braces, "j" for text that makes the
\* enclosing braces an analysis object, "x" for any other character.
Tokens == {"{", "}", "j", "x"}
Texts == UNION {[1..n -> Tokens] : n \in 0..MaxTextLen}

\* The category store.
Apps == {"Code.exe", "Discord.exe"}
Categories == {"work", "other"}
NoSub == "null"
Subcategories == {NoSub, "chat"}
\* Option::None of a productivity score.
NoScore == -1
Scores == {DefaultScore, 90}
\* What a user edit carries, and what the backend's reply gives for a key;
\* the score is an i32 in both, of any value.
UserEdits ==
    {[category |-> "work", subcategory |-> "chat", score |-> 90],
     [category |-> "other", subcategory |-> NoSub, score |-> DefaultScore],
     [category |-> "work", subcategory |-> NoSub, score |-> 0 - 5]}
AutoReplies ==
    {[category |-> "work", subcategory |-> "chat", score |-> 90],
     [category |-> "other", subcategory |-> NoSub, score |-> NoScore],
     [category |-> "work", subcategory |-> NoSub, score |-> 150]}
Passes == {"auto_categorize_apps", "categorize_all_apps"}

\* Callers of the text-generation backend.
Callers == {"cycle", "summary", "auto_categorize_apps", "categorize_all_apps"}

VARIABLES
    now,                \* Utc::now(), seconds
    nextDeadline,       \* deadline of the timer task's tokio interval
    current_mode,       \* AppState.current_mode
    last_summary_time,  \* AppState.last_summary_time: mode -> time or NoTime
    pc,                 \* position of the timer task and of the set_mode command
    gmode,              \* handle_mode_specific_logic: the mode argument
    glast,              \* handle_mode_specific_logic: let last_run
    studyTask,          \* the study summary spawned by set_mode is running
    gepoch,             \* history: the epoch in which the gate was entered
    gfresh,             \* history: the tick came after the latest switch
    epoch,              \* history: number of switch steps so far
    switched,           \* history: mode switched to, no natural tick decided yet
    missed,             \* history: whole periods the latest tick came late
    undecided,          \* history: mode switched to, no run recorded since
    clearedRun,         \* history: the last run the latest switch removed
    failed              \* history: mode whose latest cycle returned Err

VARIABLES
    cpc,                \* position of the timer task inside one cycle
    cmode,              \* the mode of the running cycle
    hungCall,           \* history: the call of this cycle that never answered
    reply,              \* the text returned by call_ollama_api
    nudge,              \* current_state asks for a notification
    awOk,               \* generate_new_hourly_summary: aw_connected
    olOk                \* generate_new_hourly_summary: ollama_available

VARIABLES
    app_categories,     \* table app_categories: app_name -> row
    activities,         \* apps with an activities row whose category is NULL
    passPc,             \* position of each automatic categorization pass
    pending,            \* keys of the backend's reply not yet written
    bulkPending,        \* bulk_update_categories: updates not yet written
    writer              \* history: who made the latest write

VARIABLES
    nowMs,              \* clock of the callers, milliseconds
    lpc,                \* position of each caller
    batchesLeft,        \* categorize_all_apps: batches still to send
    pauseUntil,         \* categorize_all_apps: end of the sleep
    last_llm_call,      \* AppState.last_llm_call
    lastStart,          \* history: start of the latest request
    prevStart           \* history: start of the request before it

VARIABLES
    response,           \* parse_llm_response: the text handed to the parser
    analysis            \* parse_llm_response: what the call came to

VARIABLES
    categorized_activities, \* process_for_enhanced_analysis: the events of
                            \* the recent timeframe, categorized
    scores              \* the scores of the summary record, NoScores before

VARIABLES
    window_event,       \* a window event returned by the tracking service
    afk_bucket,         \* a bucket of the idle watcher is registered
    afk_events,         \* the idle events returned for the range
    start_time,         \* start of the timeframe being filtered
    active_ranges,      \* let active_ranges
    filtered_events,    \* the events the filter emits for window_event
    fpc                 \* which filter has run

VARIABLES
    buckets,            \* the watchers with a bucket in get_buckets()
    window_status,      \* HTTP status of the window events query, 0: no answer
    afk_status,         \* HTTP status of the idle events query, 0: no answer
    fetcher,            \* the fetch function that was called
    fetched             \* its result: Err, or Ok with the window events

VARIABLES
    app_name,           \* the app identifier of a window event
    category_map,       \* process_for_enhanced_analysis: the rows of the table
    first_record,       \* what the first resolution of app_name gave
    second_record,      \* what the second resolution of app_name gave
    rpc                 \* how many times app_name has been resolved

VARIABLES
    session_events,     \* detect_session_boundaries: the window events
    sessions,           \* detect_session_boundaries: the sessions returned
    spc                 \* the detector has been called

schedVars == <<now, nextDeadline, current_mode, last_summary_time, pc, gmode,
               glast, studyTask, gepoch, gfresh, epoch, switched, missed,
               undecided, clearedRun, failed>>
cycleVars == <<cpc, cmode, hungCall, reply, nudge, awOk, olOk>>
catVars == <<app_categories, activities, passPc, pending, bulkPending, writer>>
llmVars == <<nowMs, lpc, batchesLeft, pauseUntil, last_llm_call, lastStart,
            prevStart>>

parseVars == <<response, analysis>>
metricVars == <<categorized_activities, scores>>
VARIABLES
    fallback_text,      \* per-field extraction: what extract_field finds
    fallback_build,     \* which parse_llm_response is compiled
    fallback_analysis   \* the LLMAnalysis of the per-field extraction

fallbackVars == <<fallback_text, fallback_build, fallback_analysis>>
VARIABLES
    lookup_app,         \* category lookup: the app of a window event
    lookup_map,         \* the rows of app_categories read by the analysis
    lookup_site,        \* the place of the analysis that looks the app up
    lookup_record       \* the category and score it uses for the app

lookupVars == <<lookup_app, lookup_map, lookup_site, lookup_record>>
VARIABLES
    stored_apps,        \* batched categorization: the apps of activities
    categorized,        \* the app names with a row in app_categories
    batch_pass,         \* the pass that is running
    batch,              \* the apps of the request in flight
    queue               \* categorize_all_apps: the apps of the later chunks

batchVars == <<stored_apps, categorized, batch_pass, batch, queue>>
VARIABLES
    stat_events,        \* per-timeframe statistics: the window events
    stat_build,         \* which copy of the statistics loop is compiled
    statistics          \* the context switches and the unique apps

statVars == <<stat_events, stat_build, statistics>>
VARIABLES
    lock_pc,            \* pattern analyzer: where each caller's invocation is
    holder,             \* who holds each of the analyzer's three mutexes
    user_baseline,      \* None, or a baseline and its is_trained
    metrics_empty,      \* current_metrics.is_empty()
    training_len        \* training_data.len(), counted up to the minimum

lockVars == <<lock_pc, holder, user_baseline, metrics_empty, training_len>>
sessionVars == <<session_events, sessions, spc>>
resolveVars == <<app_name, category_map, first_record, second_record, rpc>>
fetchVars == <<buckets, window_status, afk_status, fetcher, fetched>>
filterVars == <<window_event, afk_bucket, afk_events, start_time,
                active_ranges, filtered_events, fpc>>

\* The state of the four running parts, and that of the functions applied
\* on their own.
progVars == <<schedVars, cycleVars, catVars, llmVars>>
pureVars == <<parseVars, metricVars, filterVars, fetchVars, resolveVars>>

\* The empty table.
NoRows == [a \in {} |-> 0]

\* Each part of the program at rest, as it is after construction.
SchedIdle ==
    /\ now = 0
    /\ nextDeadline = 0
    /\ current_mode = "ghost"
    /\ last_summary_time = [m \in ModeInputs |-> NoTime]
    /\ pc = [p \in Procs |-> IF p = "timer" THEN "wait" ELSE "idle"]
    /\ gmode = [p \in Procs |-> "none"]
    /\ glast = [p \in Procs |-> NoTime]
    /\ studyTask = FALSE
    /\ gepoch = [p \in Procs |-> 0]
    /\ gfresh = FALSE
    /\ epoch = 0
    /\ switched = "none"
    /\ missed = 0
    /\ undecided = "none"
    /\ clearedRun = NoTime
    /\ failed = "none"

CycleIdle ==
    /\ cpc = "wait"
    /\ cmode = "none"
    /\ hungCall = "none"
    /\ reply = <<>>
    /\ nudge = FALSE
    /\ awOk = FALSE
    /\ olOk = FALSE

CatIdle ==
    /\ app_categories = NoRows
    /\ activities = {}
    /\ passPc = [p \in Passes |-> "idle"]
    /\ pending = [p \in Passes |-> {}]
    /\ bulkPending = {}
    /\ writer = "none"

LlmIdle ==
    /\ nowMs = 0
    /\ lpc = [c \in Callers |-> "idle"]
    /\ batchesLeft = 0
    /\ pauseUntil = 0
    /\ last_llm_call = NoTime
    /\ lastStart = NoTime
    /\ prevStart = NoTime

\* No function has been called.
ParseIdle ==
    /\ response = <<>>
    /\ analysis = "none"

\* The scores of a summary that has not been computed.
NoScores ==
    [work_score |-> 0, distraction_score |-> 0, neutral_score |-> 0,
     total_minutes |-> -1]

MetricIdle ==
    /\ categorized_activities = <<>>
    /\ scores = NoScores

FilterIdle ==
    /\ window_event = [timestamp |-> 0, duration |-> 0]
    /\ afk_bucket = FALSE
    /\ afk_events = <<>>
    /\ start_time = 0
    /\ active_ranges = <<>>
    /\ filtered_events = <<>>
    /\ fpc = "idle"

FetchIdle ==
    /\ buckets = {}
    /\ window_status = 0
    /\ afk_status = 0
    /\ fetcher = "none"
    /\ fetched = "none"

\* extract_field found nothing / nothing has been returned.
NoField == "none"

FallbackIdle ==
    /\ fallback_text = <<>>
    /\ fallback_build = "none"
    /\ fallback_analysis = <<>>

BatchIdle ==
    /\ stored_apps = {}
    /\ categorized = {}
    /\ batch_pass = "none"
    /\ batch = {}
    /\ queue = {}

\* No statistics yet.
NoStatistics == [context_switches |-> -1, unique_apps |-> {}]

StatIdle ==
    /\ stat_events = <<>>
    /\ stat_build = "none"
    /\ statistics = NoStatistics

\* The three guards of PatternAnalyzer, and the callers that share it.
Guards == {"current_metrics", "user_baseline", "training_data"}
AnalyzerCallers == 1..MaxCallers
\* No caller holds the mutex.
Free == 0

LockIdle ==
    /\ lock_pc = [t \in AnalyzerCallers |-> "idle"]
    /\ holder = [g \in Guards |-> Free]
    /\ user_baseline = "none"
    /\ metrics_empty = TRUE
    /\ training_len = 0

SessionIdle ==
    /\ session_events = <<>>
    /\ sessions = <<>>
    /\ spc = "idle"

\* No category record.
NoRecord ==
    [category |-> "none", subcategory |-> NoSub,
     productivity_score |-> NoScore]

LookupIdle ==
    /\ lookup_app = <<>>
    /\ lookup_map = NoRows
    /\ lookup_site = "none"
    /\ lookup_record = NoRecord

ResolveIdle ==
    /\ app_name = <<>>
    /\ category_map = NoRows
    /\ first_record = NoRecord
    /\ second_record = NoRecord
    /\ rpc = "idle"

PureIdle ==
    /\ ParseIdle
    /\ MetricIdle
    /\ FilterIdle
    /\ FetchIdle
    /\ ResolveIdle

ProgIdle ==
    /\ SchedIdle
    /\ CycleIdle
    /\ CatIdle
    /\ LlmIdle

\* Frames: what an action of one function specification leaves unchanged.
analysisVars == <<sessionVars, fallbackVars, lookupVars, batchVars, statVars, lockVars>>

SessionFrame ==
    <<progVars, pureVars, fallbackVars, lookupVars,
      batchVars, statVars, lockVars>>
FallbackFrame ==
    <<progVars, pureVars, sessionVars, lookupVars,
      batchVars, statVars, lockVars>>
LookupFrame ==
    <<progVars, pureVars, sessionVars, fallbackVars,
      batchVars, statVars, lockVars>>
BatchFrame ==
    <<progVars, pureVars, sessionVars, fallbackVars,
      lookupVars, statVars, lockVars>>
StatFrame ==
    <<progVars, pureVars, sessionVars, fallbackVars,
      lookupVars, batchVars, lockVars>>
LockFrame ==
    <<progVars, pureVars, sessionVars, fallbackVars,
      lookupVars, batchVars, statVars>>

\* The other functions have not been called and the program has just started.
SessionAlone ==
    /\ ProgIdle
    /\ PureIdle
    /\ FallbackIdle
    /\ LookupIdle
    /\ BatchIdle
    /\ StatIdle
    /\ LockIdle

FallbackAlone ==
    /\ ProgIdle
    /\ PureIdle
    /\ SessionIdle
    /\ LookupIdle
    /\ BatchIdle
    /\ StatIdle
    /\ LockIdle

LookupAlone ==
    /\ ProgIdle
    /\ PureIdle
    /\ SessionIdle
    /\ FallbackIdle
    /\ BatchIdle
    /\ StatIdle
    /\ LockIdle

BatchAlone ==
    /\ ProgIdle
    /\ PureIdle
    /\ SessionIdle
    /\ FallbackIdle
    /\ LookupIdle
    /\ StatIdle
    /\ LockIdle

StatAlone ==
    /\ ProgIdle
    /\ PureIdle
    /\ SessionIdle
    /\ FallbackIdle
    /\ LookupIdle
    /\ BatchIdle
    /\ LockIdle

LockAlone ==
    /\ ProgIdle
    /\ PureIdle
    /\ SessionIdle
    /\ FallbackIdle
    /\ LookupIdle
    /\ BatchIdle
    /\ StatIdle

AnalysisIdle ==
    /\ SessionIdle
    /\ FallbackIdle
    /\ LookupIdle
    /\ BatchIdle
    /\ StatIdle
    /\ LockIdle
\* (end of the frames)

fnVars == <<pureVars, analysisVars>>

vars == <<progVars, fnVars>>

FnIdle ==
    /\ PureIdle
    /\ AnalysisIdle

\* ------------------------------------------------------------ scheduler
Minute(t) == (t \div SecondsPerMinute) % MinutesPerHour

get_mode_interval_minutes(mode) ==
    CASE mode = "ghost" -> HourlyInterval
      [] mode = "chill" -> HourlyInterval
      [] mode = "study_buddy" -> StudyEvery
      [] mode = "coach" -> CoachEvery
      [] OTHER -> HourlyInterval

\* RanWithinGuard with the comparison inverted.
RanWithinGuard_inverted(last_run, t) ==
    last_run # NoTime /\ t - last_run > GuardSeconds

\* The secondary guard: a last run less than 60 seconds ago.
RanWithinGuard(last_run, t) ==
    last_run # NoTime /\ t - last_run < GuardSeconds

\* MinuteRule with the coach arm a copy of the study arm.
MinuteRule_coachAsStudy(mode, t) ==
    CASE mode \in {"ghost", "chill"} -> Minute(t) = 0
      [] mode = "study_buddy" -> Minute(t) % StudyEvery = 0
      [] mode = "coach" -> Minute(t) % StudyEvery = 0
      [] OTHER -> FALSE

\* MinuteRule with the coach arm firing on the half hour only.
MinuteRule_coachHalfHour(mode, t) ==
    CASE mode \in {"ghost", "chill"} -> Minute(t) = 0
      [] mode = "study_buddy" -> Minute(t) % StudyEvery = 0
      [] mode = "coach" -> Minute(t) % (2 * CoachEvery) = 0
      [] OTHER -> FALSE

\* The minute rule of the four modes.
MinuteRule(mode, t) ==
    CASE mode \in {"ghost", "chill"} -> Minute(t) = 0
      [] mode = "study_buddy" -> Minute(t) % StudyEvery = 0
      [] mode = "coach" -> Minute(t) % CoachEvery = 0
      [] OTHER -> FALSE

should_run_summary(mode, last_run, t) ==
    IF RanWithinGuard(last_run, t)
    THEN FALSE
    ELSE IF mode \in Modes
         THEN MinuteRule(mode, t)
         ELSE IF last_run = NoTime
              THEN TRUE
              ELSE (t - last_run) \div SecondsPerMinute
                       >= get_mode_interval_minutes(mode)

\* The interval left at tokio's default, MissedTickBehavior::Burst.
NextTickDeadline_burst(deadline, t) == deadline + TickPeriod

\* tokio::time::interval with MissedTickBehavior::Skip: a tick delivered late
\* drops the deadlines already missed and re-aligns to the period.
NextTickDeadline(deadline, t) ==
    IF t > deadline
    THEN t + TickPeriod - ((t - deadline) % TickPeriod)
    ELSE deadline + TickPeriod

\* Where a caller of the gate goes on when the gate returns.
Resume(p) == IF p = "timer" THEN "wait" ELSE "idle"

\* The code from a tick or a set_mode call to the handler's first await is
\* synchronous; time passes only outside it.
Suspended(p) == pc[p] \in {"wait", "idle", "handler"}

SchedInit ==
    /\ now = 0
    /\ nextDeadline = 0
    /\ current_mode \in ModeInputs
    /\ last_summary_time = [m \in ModeInputs |-> NoTime]
    /\ pc = [p \in Procs |-> Resume(p)]
    /\ gmode = [p \in Procs |-> "none"]
    /\ glast = [p \in Procs |-> NoTime]
    /\ studyTask = FALSE
    /\ gepoch = [p \in Procs |-> 0]
    /\ gfresh = FALSE
    /\ epoch = 0
    /\ switched = "none"
    /\ missed = 0
    /\ undecided = "none"
    /\ clearedRun = NoTime
    /\ failed = "none"
    /\ CycleIdle
    /\ CatIdle
    /\ LlmIdle
    /\ FnIdle

\* Time passes, to the next instant.
Advance ==
    /\ \A p \in Procs : Suspended(p)
    /\ \E t \in Instants :
          /\ t > now
          /\ \A u \in Instants : u > now => t <= u
          /\ now' = t
    /\ UNCHANGED <<undecided, clearedRun>>
    /\ UNCHANGED failed
    /\ UNCHANGED <<cycleVars, catVars, llmVars, fnVars>>
    /\ UNCHANGED <<nextDeadline, current_mode, last_summary_time, pc, gmode,
                   glast, studyTask, gepoch, gfresh, epoch, switched, missed>>

\* run(): interval.tick().await, then the current mode is read.
TimerTick ==
    /\ pc["timer"] = "wait"
    /\ now >= nextDeadline
    /\ nextDeadline' = NextTickDeadline(nextDeadline, now)
    /\ missed' = (now - nextDeadline) \div TickPeriod
    /\ gmode' = [gmode EXCEPT !["timer"] = current_mode]
    /\ gfresh' = (switched = current_mode)
    /\ pc' = [pc EXCEPT !["timer"] = "gate_read"]
    /\ UNCHANGED <<undecided, clearedRun>>
    /\ UNCHANGED failed
    /\ UNCHANGED <<cycleVars, catVars, llmVars, fnVars>>
    /\ UNCHANGED <<now, current_mode, last_summary_time, glast, studyTask,
                   gepoch, epoch, switched>>

\* set_mode, up to the spawn of the immediate study summary.  A failure of
\* save_mode, update_tray_menu or emit returns after the mode was stored.
SetMode(mode, ok) ==
    /\ pc["cmd"] = "idle"
    /\ epoch < MaxEpoch
    /\ current_mode' = mode
    /\ epoch' = epoch + 1
    /\ IF ok
       THEN /\ pc' = [pc EXCEPT !["cmd"] = "clear"]
            /\ gmode' = [gmode EXCEPT !["cmd"] = mode]
            /\ studyTask' = (studyTask \/ mode = "study_buddy")
       ELSE UNCHANGED <<pc, gmode, studyTask>>
    /\ UNCHANGED <<undecided, clearedRun>>
    /\ UNCHANGED failed
    /\ UNCHANGED <<cycleVars, catVars, llmVars, fnVars>>
    /\ UNCHANGED <<now, nextDeadline, last_summary_time, glast, gepoch,
                   gfresh, switched, missed>>

\* The spawned handle_study_mode returns; an Err is logged.
StudyTaskReturn ==
    /\ studyTask
    /\ studyTask' = FALSE
    /\ UNCHANGED <<undecided, clearedRun>>
    /\ UNCHANGED failed
    /\ UNCHANGED <<cycleVars, catVars, llmVars, fnVars>>
    /\ UNCHANGED <<now, nextDeadline, current_mode, last_summary_time, pc,
                   gmode, glast, gepoch, gfresh, epoch, switched, missed>>

\* SetModeClear without times.remove(&mode).
SetModeClear_keepsEntry ==
    /\ pc["cmd"] = "clear"
    /\ epoch' = epoch + 1
    /\ switched' = gmode["cmd"]
    /\ undecided' = gmode["cmd"]
    /\ clearedRun' = last_summary_time[gmode["cmd"]]
    /\ pc' = [pc EXCEPT !["cmd"] = "gate_read"]
    /\ failed' = IF failed = gmode["cmd"] THEN "none" ELSE failed
    /\ UNCHANGED <<cycleVars, catVars, llmVars, fnVars>>
    /\ UNCHANGED <<now, nextDeadline, current_mode, last_summary_time, gmode,
                   glast, studyTask, gepoch, gfresh, missed>>

\* set_mode: times.remove(&mode), before its own call of the gate.
SetModeClear ==
    /\ pc["cmd"] = "clear"
    /\ last_summary_time' = [last_summary_time EXCEPT ![gmode["cmd"]] = NoTime]
    /\ epoch' = epoch + 1
    /\ switched' = gmode["cmd"]
    /\ undecided' = gmode["cmd"]
    /\ clearedRun' = last_summary_time[gmode["cmd"]]
    /\ pc' = [pc EXCEPT !["cmd"] = "gate_read"]
    /\ failed' = IF failed = gmode["cmd"] THEN "none" ELSE failed
    /\ UNCHANGED <<cycleVars, catVars, llmVars, fnVars>>
    /\ UNCHANGED <<now, nextDeadline, current_mode, gmode, glast, studyTask,
                   gepoch, gfresh, missed>>

\* handle_menu_event: a mode chosen from the tray menu; no call of the gate.
MenuSwitch(mode) ==
    /\ epoch < MaxEpoch
    /\ current_mode' = mode
    /\ last_summary_time' = [last_summary_time EXCEPT ![mode] = NoTime]
    /\ epoch' = epoch + 1
    /\ switched' = mode
    /\ undecided' = mode
    /\ clearedRun' = last_summary_time[mode]
    /\ failed' = IF failed = mode THEN "none" ELSE failed
    /\ UNCHANGED <<cycleVars, catVars, llmVars, fnVars>>
    /\ UNCHANGED <<now, nextDeadline, pc, gmode, glast, studyTask, gepoch,
                   gfresh, missed>>

\* handle_mode_specific_logic: now is taken, last_run read under the lock.
GateRead(p) ==
    /\ pc[p] = "gate_read"
    /\ glast' = [glast EXCEPT ![p] = last_summary_time[gmode[p]]]
    /\ gepoch' = [gepoch EXCEPT ![p] = epoch]
    /\ pc' = [pc EXCEPT ![p] = "gate_check"]
    /\ UNCHANGED <<undecided, clearedRun>>
    /\ UNCHANGED failed
    /\ UNCHANGED <<cycleVars, catVars, llmVars, fnVars>>
    /\ UNCHANGED <<now, nextDeadline, current_mode, last_summary_time, gmode,
                   studyTask, gfresh, epoch, switched, missed>>

\* The decision of the first natural tick after a switch to its mode, taken
\* at a minute on which that mode's rule holds.
FreshTick(p) ==
    /\ p = "timer"
    /\ gfresh
    /\ switched = gmode[p]
    /\ MinuteRule(gmode[p], now)

\* handle_mode_specific_logic: if !should_run_summary(mode, last_run).
GateCheck(p) ==
    /\ pc[p] = "gate_check"
    /\ pc' = [pc EXCEPT ![p] =
                  IF should_run_summary(gmode[p], glast[p], now)
                  THEN "gate_insert" ELSE "gate_skip"]
    /\ switched' = IF FreshTick(p) THEN "none" ELSE switched
    /\ UNCHANGED <<undecided, clearedRun>>
    /\ UNCHANGED failed
    /\ UNCHANGED <<cycleVars, catVars, llmVars, fnVars>>
    /\ UNCHANGED <<now, nextDeadline, current_mode, last_summary_time, gmode,
                   glast, studyTask, gepoch, gfresh, epoch, missed>>

\* handle_mode_specific_logic: return Ok(()) without running anything.
GateSkip(p) ==
    /\ pc[p] = "gate_skip"
    /\ pc' = [pc EXCEPT ![p] = Resume(p)]
    /\ gmode' = [gmode EXCEPT ![p] = "none"]
    /\ glast' = [glast EXCEPT ![p] = NoTime]
    /\ gepoch' = [gepoch EXCEPT ![p] = 0]
    /\ gfresh' = IF p = "timer" THEN FALSE ELSE gfresh
    /\ missed' = IF p = "timer" THEN 0 ELSE missed
    /\ UNCHANGED <<undecided, clearedRun>>
    /\ UNCHANGED failed
    /\ UNCHANGED <<cycleVars, catVars, llmVars, fnVars>>
    /\ UNCHANGED <<now, nextDeadline, current_mode, last_summary_time,
                   studyTask, epoch, switched>>

\* handle_mode_specific_logic: times.insert(mode, now), then the mode's
\* handler is entered (a string that is no mode has none: Ok(())).
GateInsert(p) ==
    /\ pc[p] = "gate_insert"
    /\ last_summary_time' = [last_summary_time EXCEPT ![gmode[p]] = now]
    /\ undecided' = IF undecided = gmode[p] THEN "none" ELSE undecided
    /\ clearedRun' = IF undecided = gmode[p] THEN NoTime ELSE clearedRun
    /\ IF gmode[p] \in Modes
       THEN /\ pc' = [pc EXCEPT ![p] = "handler"]
            /\ UNCHANGED <<gmode, glast, gepoch, gfresh, missed>>
       ELSE /\ pc' = [pc EXCEPT ![p] = Resume(p)]
            /\ gmode' = [gmode EXCEPT ![p] = "none"]
            /\ glast' = [glast EXCEPT ![p] = NoTime]
            /\ gepoch' = [gepoch EXCEPT ![p] = 0]
            /\ gfresh' = IF p = "timer" THEN FALSE ELSE gfresh
            /\ missed' = IF p = "timer" THEN 0 ELSE missed
    /\ failed' = IF failed = gmode[p] THEN "none" ELSE failed
    /\ UNCHANGED <<cycleVars, catVars, llmVars, fnVars>>
    /\ UNCHANGED <<now, nextDeadline, current_mode, studyTask, epoch,
                   switched>>

\* The handler returns Ok or Err; the timer task logs an Err and loops, the
\* command logs it and returns.
HandlerReturn(p, ok) ==
    /\ pc[p] = "handler"
    /\ pc' = [pc EXCEPT ![p] = Resume(p)]
    /\ gmode' = [gmode EXCEPT ![p] = "none"]
    /\ glast' = [glast EXCEPT ![p] = NoTime]
    /\ gepoch' = [gepoch EXCEPT ![p] = 0]
    /\ gfresh' = IF p = "timer" THEN FALSE ELSE gfresh
    /\ missed' = IF p = "timer" THEN 0 ELSE missed
    /\ UNCHANGED <<undecided, clearedRun>>
    /\ failed' = IF ok THEN failed ELSE gmode[p]
    /\ UNCHANGED <<cycleVars, catVars, llmVars, fnVars>>
    /\ UNCHANGED <<now, nextDeadline, current_mode, last_summary_time,
                   studyTask, epoch, switched>>

SchedNext ==
    \/ Advance
    \/ TimerTick
    \/ \E mode \in ModeInputs, ok \in BOOLEAN : SetMode(mode, ok)
    \/ StudyTaskReturn
    \/ SetModeClear
    \/ \E mode \in MenuModes : MenuSwitch(mode)
    \/ \E p \in Procs : GateRead(p)
    \/ \E p \in Procs : GateCheck(p)
    \/ \E p \in Procs : GateSkip(p)
    \/ \E p \in Procs : GateInsert(p)
    \/ \E p \in Procs, ok \in BOOLEAN : HandlerReturn(p, ok)

SchedSpec == SchedInit /\ [][SchedNext]_vars

\* ------------------------------------------------- claims on the scheduler
\* The cadence as the specification words it.
ClaimedRule(mode, t) ==
    CASE mode \in {"ghost", "chill"} -> (t \div 60) % 60 = 0
      [] mode = "study_buddy" -> ((t \div 60) % 60) % 5 = 0
      [] mode = "coach" -> ((t \div 60) % 60) % 15 = 0
      [] OTHER -> FALSE

\* A process that has passed the gate for a mode and runs, or is about to
\* run, that mode's handler.
PastGate(p) == pc[p] \in {"gate_insert", "handler"} /\ gmode[p] \in Modes

\* C2: of two entries into the gate for the same mode with no mode switch
\* between them, at most one runs the handler within any 60 seconds: when one
\* is about to run it, another that entered in the same epoch and has passed
\* the gate must have recorded its run at least 60 seconds ago.
C2_NoDuplicateRun ==
    \A p, q \in Procs :
        (/\ p # q
         /\ pc[p] = "gate_insert"
         /\ PastGate(p)
         /\ PastGate(q)
         /\ gmode[p] = gmode[q]
         /\ gepoch[p] = gepoch[q])
        => /\ pc[q] = "handler"
           /\ \/ last_summary_time[gmode[q]] = NoTime
              \/ now - last_summary_time[gmode[q]] >= 60

\* C3: a decision taken less than 60 seconds after the last run read for the
\* mode never fires, whatever the minute of the hour.
C3_GuardSuppresses ==
    [][\A p \in Procs :
          (/\ pc[p] = "gate_check"
           /\ glast[p] # NoTime
           /\ now - glast[p] < 60)
          => pc'[p] # "gate_insert"]_vars

\* A decision taken 30 seconds after the last run, on a trigger minute of
\* the mode, that did not fire.
C3_Witness ==
    \E p \in Procs :
        /\ pc[p] = "gate_skip"
        /\ glast[p] # NoTime
        /\ now - glast[p] = 30
        /\ ClaimedRule(gmode[p], now)

C5_RuleFires ==
    [][\A p \in Procs :
          (/\ pc[p] = "gate_check"
           /\ pc'[p] # "gate_check"
           /\ ClaimedRule(gmode[p], now)
           /\ (glast[p] = NoTime \/ now - glast[p] >= 60))
          => pc'[p] = "gate_insert"]_vars

\* coach, minute 15, last run on minute 0 of the same hour: fired.
C5_Witness ==
    \E p \in Procs :
        /\ pc[p] = "gate_insert"
        /\ gmode[p] = "coach"
        /\ (now \div 60) % 60 = 15
        /\ glast[p] # NoTime
        /\ glast[p] \div 60 = 0

\* A decision for the mode switched to, taken on a last run read after the
\* switch and before another run of that mode is recorded.
AfterSwitch(p) == undecided = gmode[p] /\ gepoch[p] = epoch

C9_LateTickSkipsMissed ==
    [][(pc["timer"] = "wait" /\ pc'["timer"] = "gate_read")
       => (nextDeadline' > now /\ nextDeadline' <= now + 60)]_vars

\* A wake-up at least two periods late whose single tick runs a cycle.
C9_Witness ==
    /\ pc["timer"] = "handler"
    /\ missed >= 2
    /\ nextDeadline > now

\* C21: the current mode is always one of ghost, chill, study_buddy, coach.
C21_ModeIsOneOfFour == current_mode \in {"ghost", "chill", "study_buddy", "coach"}

\* C22: the timestamp recorded by a failed attempt does not keep a later
\* tick from running the cycle: a tick on which the mode of the failed
\* cycle is due runs the cycle again.
C22_FailedAttemptDoesNotBlock ==
    [][(/\ pc["timer"] = "gate_check"
        /\ pc'["timer"] # "gate_check"
        /\ failed = gmode["timer"]
        /\ ClaimedRule(gmode["timer"], now))
       => pc'["timer"] = "gate_insert"]_vars

\* ------------------------------------------------------- analysis cycle
\* The timer task of lib.rs from one tick to the next, call by call.

\* ClientTimeout with the text-generation client built without a timeout
\* (0 stands for a client that waits for ever).
ClientTimeout_ollamaUnbounded(call) ==
    CASE call \in AwCalls -> AwTimeout
      [] call \in OllamaCalls -> 0
      [] call = "ollama_test" -> OllamaTestTimeout
      [] OTHER -> 0

\* The timeout that bounds an awaited call: that of its reqwest client, or
\* the per-request one of test_ollama_connection.
ClientTimeout(call) ==
    CASE call \in AwCalls -> AwTimeout
      [] call \in OllamaCalls -> OllamaTimeout
      [] call = "ollama_test" -> OllamaTestTimeout
      [] OTHER -> 0

HasTimeout(call) == ClientTimeout(call) > 0

\* The one text serde_json reads as an LLMAnalysis.
Analysis == <<"{", "j", "}">>

\* str::find and str::rfind; 0 is None, positions count from 1.
find(text, c) ==
    IF \E i \in 1..Len(text) : text[i] = c
    THEN CHOOSE i \in 1..Len(text) :
             text[i] = c /\ \A j \in 1..(i - 1) : text[j] # c
    ELSE 0

rfind(text, c) ==
    IF \E i \in 1..Len(text) : text[i] = c
    THEN CHOOSE i \in 1..Len(text) :
             text[i] = c /\ \A j \in (i + 1)..Len(text) : text[j] # c
    ELSE 0

\* parse_llm_response on a text without the stripped prefixes: direct
\* parsing, then the slice from the first "{" to the last "}", then field by
\* field extraction, which always yields an analysis.  The slice
\* &cleaned_response[start..=end] panics when start > end + 1.
parse_llm_response(text) ==
    IF text = Analysis
    THEN "parsed"
    ELSE LET start == find(text, "{")
             last == rfind(text, "}")
         IN  IF start # 0 /\ last # 0
             THEN IF start > last + 1
                  THEN "panic"
                  ELSE IF SubSeq(text, start, last) = Analysis
                       THEN "parsed"
                       ELSE "fields"
             ELSE "fields"

\* Where a handler goes on once it holds a summary.
AfterSummary(mode, nd) ==
    CASE mode = "ghost" -> "append"
      [] mode = "chill" -> IF nd THEN "notify" ELSE "emit"
      [] mode = "study_buddy" -> IF nd THEN "notify" ELSE "save"
      [] OTHER -> "activity"

\* Where a handler goes on after send_notification.
AfterNotify(mode) == IF mode = "study_buddy" THEN "save" ELSE "emit"

\* Where a handler goes on after its file is written.
AfterSave(mode) == IF mode = "coach" THEN "notify" ELSE "emit"

\* Where the cycle goes on when an awaited call is over; ok is FALSE for an
\* error, an error status and a timeout alike.
AfterCall(call, mode, ok, aw) ==
    CASE call = "aw_test" ->
             IF mode = "ghost" THEN "ollama_test"
             ELSE IF ok THEN "fetch" ELSE "wait"
      [] call = "ollama_test" -> IF aw /\ ok THEN "fetch" ELSE "append"
      [] call = "fetch" -> IF ok THEN "ollama" ELSE AfterSummary(mode, FALSE)
      [] call = "ollama" ->
             IF ok THEN "parse"
             ELSE IF mode = "ghost" THEN "append" ELSE "wait"
      [] call = "activity" -> "ollama_todo"
      [] call = "ollama_todo" -> "save"
      [] OTHER -> AfterNotify(mode)

\* The cycle moves to a label; back at the tick its locals are dropped.
Goto(label, text, nd) ==
    /\ cpc' = label
    /\ cmode' = IF label = "wait" THEN "none" ELSE cmode
    /\ reply' = IF label = "parse" THEN text ELSE <<>>
    /\ nudge' = IF label = "wait" THEN FALSE ELSE nd
    /\ awOk' = IF label = "wait" THEN FALSE ELSE awOk
    /\ olOk' = IF label = "wait" THEN FALSE ELSE olOk

CycleInit ==
    /\ CycleIdle
    /\ SchedIdle
    /\ CatIdle
    /\ LlmIdle
    /\ FnIdle

\* run(): a tick; the mode is read (a poisoned lock: continue), the gate is
\* passed or not (a poisoned lock: Err, logged), the handler is entered.
CycleTick(mode, lock, fire) ==
    /\ cpc = "wait"
    /\ hungCall' = "none"
    /\ IF lock = "ok" /\ fire /\ mode \in Modes
       THEN /\ cpc' = IF mode = "ghost" THEN "mkdir" ELSE "aw_test"
            /\ cmode' = mode
       ELSE /\ cpc' = "wait"
            /\ cmode' = "none"
    /\ UNCHANGED <<reply, nudge, awOk, olOk>>
    /\ UNCHANGED <<schedVars, catVars, llmVars, fnVars>>

\* create_dir_all, the append of the hourly file, the write of the mode's
\* file: an error returns Err from the handler.
FsStep(ok) ==
    /\ cpc \in {"mkdir", "append", "save"}
    /\ Goto(IF ~ok THEN "wait"
            ELSE IF cpc = "mkdir" THEN "aw_test"
            ELSE IF cpc = "append" THEN "save"
            ELSE AfterSave(cmode), <<>>, nudge)
    /\ UNCHANGED hungCall
    /\ UNCHANGED <<schedVars, catVars, llmVars, fnVars>>

\* The awaited call is answered: success, or an error or error status.
CallRespond(ok, text) ==
    /\ cpc \in Calls
    /\ hungCall # cpc
    /\ cpc' = AfterCall(cpc, cmode, ok, awOk)
    /\ cmode' = IF cpc' = "wait" THEN "none" ELSE cmode
    /\ reply' = IF cpc' = "parse" THEN text ELSE <<>>
    /\ nudge' = FALSE
    /\ awOk' = IF cpc = "aw_test" THEN ok
               ELSE IF cpc' = "wait" THEN FALSE ELSE awOk
    /\ olOk' = IF cpc = "ollama_test" THEN ok
               ELSE IF cpc' = "wait" THEN FALSE ELSE olOk
    /\ UNCHANGED hungCall
    /\ UNCHANGED <<schedVars, catVars, llmVars, fnVars>>

\* The peer accepts the request and never answers.
CallHang ==
    /\ cpc \in Calls
    /\ hungCall # cpc
    /\ hungCall' = cpc
    /\ UNCHANGED <<cpc, cmode, reply, nudge, awOk, olOk>>
    /\ UNCHANGED <<schedVars, catVars, llmVars, fnVars>>

\* The client's timeout ends the await of a call not answered in time.
CallTimeout ==
    /\ cpc \in Calls
    /\ HasTimeout(cpc)
    /\ hungCall' = cpc
    /\ cpc' = AfterCall(cpc, cmode, FALSE, awOk)
    /\ cmode' = IF cpc' = "wait" THEN "none" ELSE cmode
    /\ reply' = <<>>
    /\ nudge' = FALSE
    /\ awOk' = IF cpc = "aw_test" \/ cpc' = "wait" THEN FALSE ELSE awOk
    /\ olOk' = IF cpc = "ollama_test" \/ cpc' = "wait" THEN FALSE ELSE olOk
    /\ UNCHANGED <<schedVars, catVars, llmVars, fnVars>>

\* generate_ai_summary_with_context: parse_llm_response on the reply.  A
\* panic unwinds the timer task; nothing catches it.
Parse(nd) ==
    /\ cpc = "parse"
    /\ LET r == parse_llm_response(reply)
       IN  IF r = "panic"
           THEN /\ cpc' = "dead"
                /\ UNCHANGED <<cmode, reply, nudge, awOk, olOk>>
           ELSE /\ r = "fields" => ~nd
                /\ Goto(AfterSummary(cmode, nd), <<>>, nd)
    /\ UNCHANGED hungCall
    /\ UNCHANGED <<schedVars, catVars, llmVars, fnVars>>

\* send_notification: nothing when disabled, the webhook when one is
\* configured, else an event to the frontend.
Notify(enabled, webhook) ==
    /\ cpc = "notify"
    /\ Goto(IF enabled /\ webhook THEN "webhook" ELSE AfterNotify(cmode),
            <<>>, nudge)
    /\ UNCHANGED hungCall
    /\ UNCHANGED <<schedVars, catVars, llmVars, fnVars>>

\* app.emit("hourly_summary_updated"): Ok or Err, the handler returns.
Emit(ok) ==
    /\ cpc = "emit"
    /\ Goto("wait", <<>>, FALSE)
    /\ UNCHANGED hungCall
    /\ UNCHANGED <<schedVars, catVars, llmVars, fnVars>>

\* The steps the runtime and the clients' timers take on their own.
TaskNext ==
    \/ \E mode \in ModeInputs, lock \in {"ok", "mode_poisoned", "times_poisoned"},
          fire \in BOOLEAN : CycleTick(mode, lock, fire)
    \/ \E ok \in BOOLEAN : FsStep(ok)
    \/ CallTimeout
    \/ \E nd \in BOOLEAN : Parse(nd)
    \/ \E enabled \in BOOLEAN, webhook \in BOOLEAN : Notify(enabled, webhook)
    \/ \E ok \in BOOLEAN : Emit(ok)

CycleNext ==
    \/ \E mode \in ModeInputs, lock \in {"ok", "mode_poisoned", "times_poisoned"},
          fire \in BOOLEAN : CycleTick(mode, lock, fire)
    \/ \E ok \in BOOLEAN : FsStep(ok)
    \/ \E ok \in BOOLEAN, text \in Texts : CallRespond(ok, text)
    \/ CallHang
    \/ CallTimeout
    \/ \E nd \in BOOLEAN : Parse(nd)
    \/ \E enabled \in BOOLEAN, webhook \in BOOLEAN : Notify(enabled, webhook)
    \/ \E ok \in BOOLEAN : Emit(ok)

CycleSpec == CycleInit /\ [][CycleNext]_vars

\* The runtime polls a ready task and fires a due timer.
CycleFairSpec == CycleSpec /\ WF_vars(TaskNext)

\* --------------------------------------------------- claims on the cycle
\* C7: no outcome of a cycle terminates the background task.
C7_TaskSurvives == cpc # "dead"

C19_BackendFailureStillSummarizes ==
    [][(cpc \in {"ollama", "parse"})
           => (cpc' \notin {"wait", "dead"})]_vars


\* -------------------------------------------------------- category store
\* COALESCE(x, y) of SQLite; NoScore stands for NULL.
Coalesce(x, y) == IF x # NoScore THEN x ELSE y

\* set_app_category: the upsert on app_categories.  The score is bound as
\* productivity_score.unwrap_or(50), so excluded.productivity_score is never
\* NULL.  A fresh row takes the column default user_modified = 0.
set_app_category(table, app, category, subcategory, score, auto_detected) ==
    LET bound == IF score = NoScore THEN DefaultScore ELSE score
        row == IF app \in DOMAIN table
               THEN [category |-> category,
                     subcategory |-> subcategory,
                     productivity_score |->
                         Coalesce(bound, table[app].productivity_score),
                     auto_detected |-> auto_detected,
                     user_modified |->
                         IF ~auto_detected THEN 1
                         ELSE table[app].user_modified]
               ELSE [category |-> category,
                     subcategory |-> subcategory,
                     productivity_score |-> bound,
                     auto_detected |-> auto_detected,
                     user_modified |-> 0]
    IN  [a \in DOMAIN table \cup {app} |-> IF a = app THEN row ELSE table[a]]

\* get_uncategorized_apps: apps of NULL-category activities without a row.
get_uncategorized_apps == activities \ DOMAIN app_categories

CatInit ==
    /\ CatIdle
    /\ SchedIdle
    /\ CycleIdle
    /\ LlmIdle
    /\ FnIdle

\* store_activities: an event of an app is stored; its category column is
\* that of the app's row, NULL when there is none.
StoreActivity(app) ==
    /\ app \notin activities
    /\ app \notin DOMAIN app_categories
    /\ activities' = activities \cup {app}
    /\ UNCHANGED <<app_categories, passPc, pending, bulkPending, writer>>
    /\ UNCHANGED <<schedVars, cycleVars, llmVars, fnVars>>

\* update_app_category.
UserUpdate(app, edit, dbOk) ==
    /\ IF dbOk
       THEN /\ app_categories' =
                   set_app_category(app_categories, app, edit.category,
                                    edit.subcategory, edit.score, FALSE)
            /\ writer' = "user"
       ELSE UNCHANGED <<app_categories, writer>>
    /\ UNCHANGED <<activities, passPc, pending, bulkPending>>
    /\ UNCHANGED <<schedVars, cycleVars, llmVars, fnVars>>

\* bulk_update_categories is called with updates for a set of apps.
BulkBegin(apps) ==
    /\ bulkPending = {}
    /\ apps # {}
    /\ bulkPending' = apps
    /\ UNCHANGED <<app_categories, activities, passPc, pending, writer>>
    /\ UNCHANGED <<schedVars, cycleVars, llmVars, fnVars>>

\* bulk_update_categories: one turn of the loop; an update without app_name
\* or category, or a database error, returns Err and drops the rest.
BulkWrite(app, edit, ok) ==
    /\ app \in bulkPending
    /\ IF ok
       THEN /\ app_categories' =
                   set_app_category(app_categories, app, edit.category,
                                    edit.subcategory, edit.score, FALSE)
            /\ writer' = "user"
            /\ bulkPending' = bulkPending \ {app}
       ELSE /\ bulkPending' = {}
            /\ UNCHANGED <<app_categories, writer>>
    /\ UNCHANGED <<activities, passPc, pending>>
    /\ UNCHANGED <<schedVars, cycleVars, llmVars, fnVars>>

\* A pass starts: the uncategorized apps are read; none, or (background pass)
\* no backend, ends it; else the prompt for the batch is sent.
PassBegin(p, ollamaUp) ==
    /\ passPc[p] = "idle"
    /\ get_uncategorized_apps # {}
    /\ passPc' = [passPc EXCEPT ![p] =
                      IF p = "auto_categorize_apps" /\ ~ollamaUp
                      THEN "idle" ELSE "asked"]
    /\ UNCHANGED <<app_categories, activities, pending, bulkPending, writer>>
    /\ UNCHANGED <<schedVars, cycleVars, llmVars, fnVars>>

\* call_ollama_api returns: an error, a text that is no JSON object, or an
\* object; every key of the object whose value is an object is written,
\* whether or not the key was in the batch.
PassReply(p, ok, keys) ==
    /\ passPc[p] = "asked"
    /\ IF ok /\ keys # {}
       THEN /\ passPc' = [passPc EXCEPT ![p] = "writing"]
            /\ pending' = [pending EXCEPT ![p] = keys]
       ELSE /\ passPc' = [passPc EXCEPT ![p] = "idle"]
            /\ UNCHANGED pending
    /\ UNCHANGED <<app_categories, activities, bulkPending, writer>>
    /\ UNCHANGED <<schedVars, cycleVars, llmVars, fnVars>>

\* One turn of the loop over the reply: set_app_category(.., true); its
\* error is dropped or logged.
PassWrite(p, app, item, dbOk) ==
    /\ passPc[p] = "writing"
    /\ app \in pending[p]
    /\ IF dbOk
       THEN /\ app_categories' =
                   set_app_category(app_categories, app, item.category,
                                    item.subcategory, item.score, TRUE)
            /\ writer' = "auto"
       ELSE UNCHANGED <<app_categories, writer>>
    /\ pending' = [pending EXCEPT ![p] = pending[p] \ {app}]
    /\ passPc' = [passPc EXCEPT ![p] =
                      IF pending[p] = {app} THEN "idle" ELSE "writing"]
    /\ UNCHANGED <<activities, bulkPending>>
    /\ UNCHANGED <<schedVars, cycleVars, llmVars, fnVars>>

CatNext ==
    \/ \E app \in Apps : StoreActivity(app)
    \/ \E app \in Apps, edit \in UserEdits, dbOk \in BOOLEAN :
              UserUpdate(app, edit, dbOk)
    \/ \E apps \in SUBSET Apps : BulkBegin(apps)
    \/ \E app \in Apps, edit \in UserEdits, ok \in BOOLEAN :
              BulkWrite(app, edit, ok)
    \/ \E p \in Passes, ollamaUp \in BOOLEAN : PassBegin(p, ollamaUp)
    \/ \E p \in Passes, ok \in BOOLEAN, keys \in SUBSET Apps :
              PassReply(p, ok, keys)
    \/ \E p \in Passes, app \in Apps, item \in AutoReplies, dbOk \in BOOLEAN :
              PassWrite(p, app, item, dbOk)

CatSpec == CatInit /\ [][CatNext]_vars

\* ------------------------------------------ claims on the category store
\* C1: once a row has user_modified = 1, no automatic write changes its
\* category, subcategory or productivity score.
C1_UserRecordsKept ==
    [][(writer' = "auto" /\ app_categories' # app_categories)
       => \A a \in DOMAIN app_categories :
              app_categories[a].user_modified = 1
              => /\ app_categories'[a].category = app_categories[a].category
                 /\ app_categories'[a].subcategory
                        = app_categories[a].subcategory
                 /\ app_categories'[a].productivity_score
                        = app_categories[a].productivity_score]_vars

\* C26: every row of app_categories, whoever wrote it, has a productivity
\* score from 0 to 100.
C26_ScoresWithinRange ==
    \A a \in DOMAIN app_categories :
        app_categories[a].productivity_score \in 0..100

\* ------------------------------------------- text-generation requests
\* Whether a caller reaches the backend through
\* call_ollama_api_with_rate_limit: every call site calls call_ollama_api.
UsesRateLimit(c) == FALSE

\* call_ollama_api_with_rate_limit: how long the caller sleeps, milliseconds;
\* elapsed.num_seconds() counts whole seconds.
rate_limit_wait(last_call, t) ==
    IF last_call = NoTime
    THEN 0
    ELSE LET elapsed == (t - last_call) \div MsPerSecond
         IN  IF elapsed < RateLimitSeconds
             THEN (RateLimitSeconds - elapsed) * MsPerSecond
             ELSE 0

LlmInit ==
    /\ LlmIdle
    /\ SchedIdle
    /\ CycleIdle
    /\ CatIdle
    /\ FnIdle

\* Half a second passes.
TimePasses ==
    /\ nowMs < MaxHalfSeconds * BatchPauseMs
    /\ nowMs' = nowMs + BatchPauseMs
    /\ UNCHANGED <<lpc, batchesLeft, pauseUntil, last_llm_call, lastStart,
                   prevStart>>
    /\ UNCHANGED <<schedVars, cycleVars, catVars, fnVars>>

\* categorize_all_apps is called with n batches of apps.
BatchesBegin(n) ==
    /\ lpc["categorize_all_apps"] = "idle"
    /\ batchesLeft' = n
    /\ lpc' = [lpc EXCEPT !["categorize_all_apps"] = "ready"]
    /\ UNCHANGED <<nowMs, pauseUntil, last_llm_call, lastStart, prevStart>>
    /\ UNCHANGED <<schedVars, cycleVars, catVars, fnVars>>

\* A caller sends its request.  Through the rate limiter it would first
\* sleep out rate_limit_wait and then store the shared timestamp.
Request(c) ==
    /\ lpc[c] = IF c = "categorize_all_apps" THEN "ready" ELSE "idle"
    /\ IF UsesRateLimit(c)
       THEN /\ rate_limit_wait(last_llm_call, nowMs) = 0
            /\ last_llm_call' = nowMs
       ELSE UNCHANGED last_llm_call
    /\ prevStart' = lastStart
    /\ lastStart' = nowMs
    /\ lpc' = [lpc EXCEPT ![c] = "call"]
    /\ UNCHANGED <<nowMs, batchesLeft, pauseUntil>>
    /\ UNCHANGED <<schedVars, cycleVars, catVars, fnVars>>

\* call_ollama_api returns, Ok or Err; categorize_all_apps then sleeps 500 ms.
Respond(c) ==
    /\ lpc[c] = "call"
    /\ IF c = "categorize_all_apps"
       THEN /\ lpc' = [lpc EXCEPT ![c] = "pause"]
            /\ batchesLeft' = batchesLeft - 1
            /\ pauseUntil' = nowMs + BatchPauseMs
       ELSE /\ lpc' = [lpc EXCEPT ![c] = "idle"]
            /\ UNCHANGED <<batchesLeft, pauseUntil>>
    /\ UNCHANGED <<nowMs, last_llm_call, lastStart, prevStart>>
    /\ UNCHANGED <<schedVars, cycleVars, catVars, fnVars>>

\* categorize_all_apps: the sleep is over; the next batch, or the return.
PauseOver ==
    /\ lpc["categorize_all_apps"] = "pause"
    /\ nowMs >= pauseUntil
    /\ lpc' = [lpc EXCEPT !["categorize_all_apps"] =
                   IF batchesLeft > 0 THEN "ready" ELSE "idle"]
    /\ pauseUntil' = 0
    /\ UNCHANGED <<nowMs, batchesLeft, last_llm_call, lastStart, prevStart>>
    /\ UNCHANGED <<schedVars, cycleVars, catVars, fnVars>>

LlmNext ==
    \/ TimePasses
    \/ \E n \in 1..MaxBatches : BatchesBegin(n)
    \/ \E c \in Callers : Request(c)
    \/ \E c \in Callers : Respond(c)
    \/ PauseOver

LlmSpec == LlmInit /\ [][LlmNext]_vars

\* ------------------------------------ claims on text-generation requests
\* C10: any two requests to the text-generation backend start at least
\* 2 seconds apart.
C10_MinSpacing == prevStart = NoTime \/ lastStart - prevStart >= 2000


\* --------------------------------------------------- the response parser
\* parse_llm_response called on its own, on every text of Texts.

ParseInit ==
    /\ response \in Texts
    /\ analysis = "none"
    /\ MetricIdle
    /\ FilterIdle
    /\ FetchIdle
    /\ ResolveIdle
    /\ AnalysisIdle
    /\ ProgIdle

\* The call: the parser returns, or the slice panics.
ParseCall ==
    /\ analysis = "none"
    /\ analysis' = parse_llm_response(response)
    /\ UNCHANGED response
    /\ UNCHANGED <<progVars, metricVars, filterVars, fetchVars,
                   resolveVars, analysisVars>>

ParseNext == ParseCall

ParseSpec == ParseInit /\ [][ParseNext]_vars

\* ------------------------------------------ claims on the response parser
\* C11: for every input text the parser returns a structured result; it
\* never panics.
C11_ParserAlwaysReturns == analysis \in {"none", "parsed", "fields"}

\* ------------------------------------------------- productivity scores
\* calculate_productivity_metrics on the categorized events of the recent
\* timeframe, and the scores generate_ai_summary_with_app returns.
\* Durations are whole minutes; with totals this small every quotient that
\* ends in .5 is exact in f64, so the integer rounding below is f64::round.

\* (category, score) of an event: the app's row or default category, or
\* ("other", None) for an app without one.
ActivityKinds ==
    {<<"development", 90>>, <<"productivity", 70>>, <<"communication", 50>>,
     <<"entertainment", 10>>, <<"other", NoScore>>}

\* An event of the recent timeframe: category, score, duration in minutes.
Activities ==
    [category : {k[1] : k \in ActivityKinds},
     score : {k[2] : k \in ActivityKinds},
     duration : 1..MaxMinutes]

\* The productivity level of an event.
productivity_level(score, category) ==
    IF score # NoScore
    THEN IF score >= 80 THEN "productive"
         ELSE IF score >= 60 THEN "moderate"
         ELSE IF score >= 40 THEN "neutral"
         ELSE "unproductive"
    ELSE CASE category \in {"work", "development"} -> "productive"
           [] category = "productivity" -> "moderate"
           [] category \in {"communication", "system"} -> "neutral"
           [] category = "entertainment" -> "unproductive"
           [] OTHER -> "neutral"

\* category_time[level]: the minutes of the events of one level.
RECURSIVE category_time(_, _)
category_time(acts, level) ==
    IF acts = <<>>
    THEN 0
    ELSE (IF productivity_level(Head(acts).score, Head(acts).category) = level
          THEN Head(acts).duration
          ELSE 0) + category_time(Tail(acts), level)

RECURSIVE total_minutes(_)
total_minutes(acts) ==
    IF acts = <<>> THEN 0 ELSE Head(acts).duration + total_minutes(Tail(acts))

\* (minutes / total * 100.0).round(): halves round away from zero.
Percentage(minutes, total) ==
    IF total > 0 THEN (200 * minutes + total) \div (2 * total) ELSE 0

\* percentage as u32: the cast saturates at 0.
AsU32(x) == IF x < 0 THEN 0 ELSE x

calculate_productivity_metrics(acts) ==
    LET total == total_minutes(acts)
    IN  [work_percentage |->
             Percentage(category_time(acts, "productive")
                        + category_time(acts, "moderate"), total),
         distraction_percentage |->
             Percentage(category_time(acts, "unproductive"), total),
         neutral_percentage |->
             Percentage(category_time(acts, "neutral"), total),
         total_minutes |-> total]

MetricInit ==
    /\ categorized_activities \in
           UNION {[1..n -> Activities] : n \in 0..MaxActivities}
    /\ \A i \in 1..Len(categorized_activities) :
           <<categorized_activities[i].category,
             categorized_activities[i].score>> \in ActivityKinds
    /\ scores = NoScores
    /\ ParseIdle
    /\ FilterIdle
    /\ FetchIdle
    /\ ResolveIdle
    /\ AnalysisIdle
    /\ ProgIdle

\* generate_ai_summary_with_app: the local metrics become the scores of the
\* record, whatever the backend answers.
Summarize ==
    /\ scores = NoScores
    /\ LET local_metrics ==
               calculate_productivity_metrics(categorized_activities)
       IN  scores' =
               [work_score |-> AsU32(local_metrics.work_percentage),
                distraction_score |->
                    AsU32(local_metrics.distraction_percentage),
                neutral_score |-> AsU32(local_metrics.neutral_percentage),
                total_minutes |-> local_metrics.total_minutes]
    /\ UNCHANGED categorized_activities
    /\ UNCHANGED <<progVars, parseVars, filterVars, fetchVars,
                   resolveVars, analysisVars>>

MetricNext == Summarize

MetricSpec == MetricInit /\ [][MetricNext]_vars

\* ------------------------------------------ claims on productivity scores
\* C12: the three scores of a record computed from a nonzero total of
\* minutes add up to 100.
C12_ScoresSumTo100 ==
    scores.total_minutes > 0
        => scores.work_score + scores.distraction_score
               + scores.neutral_score = 100

\* ------------------------------------------------ active-interval filter
\* The filters of window events by the not-afk periods: the loop of
\* get_active_window_events and filter_events_by_active_ranges of lib.rs,
\* and the loop of modules/activity_watch.rs.  Times are whole seconds, as
\* after "duration as i64".

Max(a, b) == IF a >= b THEN a ELSE b
Min(a, b) == IF a <= b THEN a ELSE b

WindowEvents == [timestamp : 0..(MaxTime - 1), duration : 1..MaxTime]

AfkEvents ==
    [status : {"afk", "not-afk"}, timestamp : 0..(MaxTime - 1),
     duration : 1..MaxAfkSeconds]

\* The timeframes filtered: one that starts before every event, one that
\* starts after the earliest.
StartTimes == {0, 1}

\* now: no event starts later.
end_time == MaxTime

\* build_active_ranges: the (start, end) of every not-afk event, in the
\* order of the events.
RECURSIVE build_active_ranges(_)
build_active_ranges(events) ==
    IF events = <<>>
    THEN <<>>
    ELSE LET event == Head(events)
             rest == build_active_ranges(Tail(events))
         IN  IF event.status = "not-afk"
             THEN <<<<event.timestamp, event.timestamp + event.duration>>>>
                      \o rest
             ELSE rest

\* get_active_window_events of lib.rs, the loop over the active ranges for
\* one window event: the first range with a positive overlap gives one
\* adjusted event, and the loop breaks.
RECURSIVE adjusted_event(_, _)
adjusted_event(event, ranges) ==
    IF ranges = <<>>
    THEN <<>>
    ELSE LET range_start == Head(ranges)[1]
             range_end == Head(ranges)[2]
             window_end == event.timestamp + event.duration
             overlap_start == Max(event.timestamp, range_start)
             overlap_end == Min(window_end, range_end)
             overlap_duration == overlap_end - overlap_start
         IN  IF /\ event.timestamp < range_end
                /\ window_end > range_start
                /\ overlap_duration > 0
             THEN <<[timestamp |-> overlap_start,
                     duration |-> overlap_duration]>>
             ELSE adjusted_event(event, Tail(ranges))

\* filter_events_by_active_ranges for one event: kept whole when its
\* timestamp is inside the timeframe and inside some active range.
filter_events_by_active_ranges(event, ranges, start, end) ==
    IF event.timestamp < start \/ event.timestamp > end
    THEN <<>>
    ELSE IF \E i \in 1..Len(ranges) :
                event.timestamp >= ranges[i][1] /\ event.timestamp <= ranges[i][2]
         THEN <<event>>
         ELSE <<>>

\* modules/activity_watch.rs: is_active for one window event.
is_active(event, afk) ==
    \E i \in 1..Len(afk) :
        /\ afk[i].status = "not-afk"
        /\ event.timestamp < afk[i].timestamp + afk[i].duration
        /\ event.timestamp + event.duration > afk[i].timestamp

FilterInit ==
    /\ window_event \in WindowEvents
    /\ afk_bucket \in BOOLEAN
    /\ afk_events \in UNION {[1..n -> AfkEvents] : n \in 0..MaxAfk}
    /\ ~afk_bucket => afk_events = <<>>
    /\ start_time \in StartTimes
    /\ active_ranges = <<>>
    /\ filtered_events = <<>>
    /\ fpc = "start"
    /\ ParseIdle
    /\ MetricIdle
    /\ FetchIdle
    /\ ResolveIdle
    /\ AnalysisIdle
    /\ ProgIdle

\* lib.rs: the active ranges are built from the idle events.
BuildRanges ==
    /\ fpc = "start"
    /\ active_ranges' = build_active_ranges(afk_events)
    /\ fpc' = "ranges"
    /\ UNCHANGED <<window_event, afk_bucket, afk_events, start_time,
                   filtered_events>>
    /\ UNCHANGED <<progVars, parseVars, metricVars, fetchVars,
                   resolveVars, analysisVars>>

\* lib.rs get_active_window_events: the window event against the ranges.
FilterClipped ==
    /\ fpc = "ranges"
    /\ filtered_events' = adjusted_event(window_event, active_ranges)
    /\ fpc' = "clipped"
    /\ UNCHANGED <<window_event, afk_bucket, afk_events, start_time,
                   active_ranges>>
    /\ UNCHANGED <<progVars, parseVars, metricVars, fetchVars,
                   resolveVars, analysisVars>>

\* lib.rs get_multi_timeframe_data_active: the window event of one
\* timeframe against the ranges.
FilterTimeframe ==
    /\ fpc = "ranges"
    /\ filtered_events' =
           filter_events_by_active_ranges(window_event, active_ranges,
                                          start_time, end_time)
    /\ fpc' = "timeframe"
    /\ UNCHANGED <<window_event, afk_bucket, afk_events, start_time,
                   active_ranges>>
    /\ UNCHANGED <<progVars, parseVars, metricVars, fetchVars,
                   resolveVars, analysisVars>>

\* modules/activity_watch.rs get_active_window_events and
\* get_multi_timeframe_data_active: without an idle bucket, or without idle
\* events, every window event is kept; else those that overlap a not-afk
\* period are kept, whole.
FilterWhole ==
    /\ fpc = "start"
    /\ filtered_events' =
           IF ~afk_bucket \/ afk_events = <<>>
                  \/ is_active(window_event, afk_events)
           THEN <<window_event>>
           ELSE <<>>
    /\ fpc' = "whole"
    /\ UNCHANGED <<window_event, afk_bucket, afk_events, start_time,
                   active_ranges>>
    /\ UNCHANGED <<progVars, parseVars, metricVars, fetchVars,
                   resolveVars, analysisVars>>

FilterNext ==
    \/ BuildRanges
    \/ FilterClipped
    \/ FilterTimeframe
    \/ FilterWhole

FilterSpec == FilterInit /\ [][FilterNext]_vars

\* --------------------------------------- claims on the active-interval filter
\* The not-idle intervals of the idle events, and the part of the window
\* event inside one of them.
NotAfk == {i \in 1..Len(afk_events) : afk_events[i].status = "not-afk"}
AfkStart(i) == afk_events[i].timestamp
AfkEnd(i) == afk_events[i].timestamp + afk_events[i].duration
WindowEnd == window_event.timestamp + window_event.duration
Overlaps == {i \in NotAfk :
                 Max(window_event.timestamp, AfkStart(i))
                     < Min(WindowEnd, AfkEnd(i))}

RECURSIVE SumDurations(_)
SumDurations(events) ==
    IF events = <<>>
    THEN 0
    ELSE Head(events).duration + SumDurations(Tail(events))

\* C13: the active ranges used for filtering are sorted by start and
\* pairwise disjoint, and cover exactly the instants the not-idle intervals
\* cover.
C13_ActiveRangesSortedDisjoint ==
    fpc \in {"ranges", "clipped", "timeframe"} =>
        /\ \A i, j \in 1..Len(active_ranges) :
               i < j => /\ active_ranges[i][1] <= active_ranges[j][1]
                        /\ active_ranges[i][2] <= active_ranges[j][1]
        /\ \A t \in 0..(MaxTime + MaxAfkSeconds) :
               (\E i \in 1..Len(active_ranges) :
                    active_ranges[i][1] <= t /\ t < active_ranges[i][2])
                   <=> (\E i \in NotAfk : AfkStart(i) <= t /\ t < AfkEnd(i))

\* C14: when there is idle data, the events emitted for a window event
\* last no longer in total than the window event, and each lies inside
\* some not-idle interval.
C14_EmittedInsideActive ==
    (fpc \in {"clipped", "whole"} /\ afk_events # <<>>) =>
        /\ SumDurations(filtered_events) <= window_event.duration
        /\ \A k \in 1..Len(filtered_events) :
               \E i \in NotAfk :
                   /\ AfkStart(i) <= filtered_events[k].timestamp
                   /\ filtered_events[k].timestamp
                          + filtered_events[k].duration <= AfkEnd(i)

\* The not-idle intervals are pairwise disjoint.
DisjointIntervals ==
    \A i, j \in NotAfk :
        i # j => (AfkEnd(i) <= AfkStart(j) \/ AfkEnd(j) <= AfkStart(i))

\* C15: a window event that overlaps k >= 1 disjoint not-idle intervals
\* yields one adjusted event per overlap, each clipped to the overlap.
C15_OneEventPerOverlap ==
    (fpc \in {"clipped", "whole"} /\ DisjointIntervals /\ Overlaps # {}) =>
        /\ Len(filtered_events) = Cardinality(Overlaps)
        /\ \A i \in Overlaps :
               \E k \in 1..Len(filtered_events) :
                   /\ filtered_events[k].timestamp
                          = Max(window_event.timestamp, AfkStart(i))
                   /\ filtered_events[k].timestamp
                          + filtered_events[k].duration
                          = Min(WindowEnd, AfkEnd(i))

\* C16: without idle data (no idle bucket, or no idle event) the filter
\* returns the window event of the queried range unchanged.
C16_NoIdleDataKeepsAll ==
    (/\ fpc \in {"clipped", "timeframe", "whole"}
     /\ afk_events = <<>>
     /\ fpc = "timeframe" => window_event.timestamp >= start_time)
        => filtered_events = <<window_event>>

\* ------------------------------------------------------- event fetches
\* The functions that fetch window events from the tracking service, in
\* lib.rs and in modules/activity_watch.rs.  A result is "Err", or the
\* window events of an Ok: "Events" for those the service sent, "Empty"
\* for Vec::new().  Every caller passes a range that ends now, so the
\* range check of fetch_events_common passes.

Watchers == {"aw-watcher-window", "aw-watcher-afk"}

\* Answers to an events query: none (0: connection error or timeout), 200,
\* 404, 500.
Statuses == {0, 200, 404, 500}

is_success(status) == status >= 200 /\ status < 300

\* lib.rs fetch_events_common and its wrapper get_raw_events.
fetch_events_common(status) ==
    IF status = 0
    THEN "Err"
    ELSE IF ~is_success(status)
         THEN IF status = 500 THEN "Empty" ELSE "Err"
         ELSE "Events"

\* modules/activity_watch.rs get_events.
get_events(status) ==
    IF status = 0
    THEN "Err"
    ELSE IF ~is_success(status) THEN "Err" ELSE "Events"

\* lib.rs get_window_events.
get_window_events(registered, wstatus) ==
    IF "aw-watcher-window" \in registered
    THEN fetch_events_common(wstatus)
    ELSE "Empty"

\* lib.rs get_active_window_events, up to the filter: both fetches must
\* not fail; the window events are those fetched, or none without a bucket.
get_active_window_events(registered, wstatus, astatus) ==
    LET window_events ==
            IF "aw-watcher-window" \in registered
            THEN fetch_events_common(wstatus)
            ELSE "Empty"
        afk ==
            IF "aw-watcher-afk" \in registered
            THEN fetch_events_common(astatus)
            ELSE "Empty"
    IN  IF window_events = "Err" \/ afk = "Err" THEN "Err" ELSE window_events

\* lib.rs get_multi_timeframe_data_active, up to the filter.
get_multi_timeframe_data_active(registered, wstatus, astatus) ==
    IF "aw-watcher-window" \notin registered
    THEN "Err"
    ELSE LET window_events == fetch_events_common(wstatus)
             afk ==
                 IF "aw-watcher-afk" \in registered
                 THEN fetch_events_common(astatus)
                 ELSE "Empty"
         IN  IF window_events = "Err" \/ afk = "Err"
             THEN "Err"
             ELSE window_events

\* modules/activity_watch.rs get_active_window_events, up to the filter.
get_active_window_events_modules(registered, wstatus, astatus) ==
    IF "aw-watcher-window" \notin registered
    THEN "Err"
    ELSE LET window_events == get_events(wstatus)
         IN  IF window_events = "Err"
             THEN "Err"
             ELSE IF "aw-watcher-afk" \notin registered
                  THEN window_events
                  ELSE IF get_events(astatus) = "Err"
                       THEN "Err"
                       ELSE window_events

Fetchers ==
    {"fetch_events_common", "get_events", "get_window_events",
     "get_active_window_events", "get_multi_timeframe_data_active",
     "modules::get_active_window_events"}

FetchInit ==
    /\ buckets \in SUBSET Watchers
    /\ window_status \in Statuses
    /\ afk_status \in Statuses
    /\ fetcher = "none"
    /\ fetched = "none"
    /\ ParseIdle
    /\ MetricIdle
    /\ FilterIdle
    /\ ResolveIdle
    /\ AnalysisIdle
    /\ ProgIdle

\* One of the fetch functions is called and returns.
Fetch(f) ==
    /\ fetcher = "none"
    /\ f \in {"fetch_events_common", "get_events"}
           => "aw-watcher-window" \in buckets
    /\ fetcher' = f
    /\ fetched' =
           CASE f = "fetch_events_common" ->
                    fetch_events_common(window_status)
             [] f = "get_events" -> get_events(window_status)
             [] f = "get_window_events" ->
                    get_window_events(buckets, window_status)
             [] f = "get_active_window_events" ->
                    get_active_window_events(buckets, window_status,
                                             afk_status)
             [] f = "get_multi_timeframe_data_active" ->
                    get_multi_timeframe_data_active(buckets, window_status,
                                                    afk_status)
             [] OTHER ->
                    get_active_window_events_modules(buckets, window_status,
                                                     afk_status)
    /\ UNCHANGED <<buckets, window_status, afk_status>>
    /\ UNCHANGED <<progVars, parseVars, metricVars, filterVars,
                   resolveVars, analysisVars>>

FetchNext == \E f \in Fetchers : Fetch(f)

FetchSpec == FetchInit /\ [][FetchNext]_vars

\* ------------------------------------------------ claims on event fetches
\* C17: an events query answered with status 500 yields an empty event
\* collection and no error.
C17_Status500IsEmpty ==
    (fetcher \in {"fetch_events_common", "get_events"}
         /\ window_status = 500)
        => fetched = "Empty"

\* C18: without a registered bucket of the window watcher every fetch of
\* window events fails with an error; none returns an empty result.
C18_NoWindowBucketIsError ==
    (fetcher \in {"get_window_events", "get_active_window_events",
                  "get_multi_timeframe_data_active",
                  "modules::get_active_window_events"}
         /\ "aw-watcher-window" \notin buckets)
        => fetched = "Err"

\* --------------------------------------------------- category resolution
\* The category of an app in process_for_enhanced_analysis: the app's row
\* when it has one, else categorize_app on the default table.  An app
\* identifier is a sequence of fragments; the keys and the patterns of
\* default_categories.rs used here are whole fragments.

Fragments == {"App", "Code", "Discord", "Steam", "Game", "Notes", ".exe"}

AppNames == UNION {[1..n -> Fragments] : n \in 1..MaxFragments}

\* str::to_lowercase, fragment by fragment.
Lower(fragment) ==
    CASE fragment = "App" -> "app"
      [] fragment = "Code" -> "code"
      [] fragment = "Discord" -> "discord"
      [] fragment = "Steam" -> "steam"
      [] fragment = "Game" -> "game"
      [] fragment = "Notes" -> "notes"
      [] OTHER -> fragment

to_lowercase(name) == [i \in 1..Len(name) |-> Lower(name[i])]

\* str::contains for a key that is one fragment.
contains(lower, key) == \E i \in 1..Len(lower) : lower[i] = key

AppCategory(category, subcategory, productivity_score) ==
    [category |-> category, subcategory |-> subcategory,
     productivity_score |-> productivity_score]

\* get_default_app_categories: four of its entries.
get_default_app_categories ==
    [key \in {"steam", "code", "discord", "app"} |->
        CASE key = "steam" -> AppCategory("entertainment", "gaming", 10)
          [] key = "code" -> AppCategory("development", "ide", 95)
          [] key = "discord" -> AppCategory("communication", "chat", 40)
          [] OTHER -> AppCategory("productivity", "assistant", 70)]

\* categorize_app: the results it can return.  The partial match returns
\* the first matching key in the iteration order of a HashMap built for
\* this call, hashed with a RandomState of its own: any matching key can
\* come first.
categorize_app(name) ==
    LET app_lower == to_lowercase(name)
        categories == get_default_app_categories
        matching == {key \in DOMAIN categories : contains(app_lower, key)}
    IN  IF Len(app_lower) = 1 /\ app_lower[1] \in DOMAIN categories
        THEN {categories[app_lower[1]]}
        ELSE IF matching # {}
        THEN {categories[key] : key \in matching}
        ELSE IF contains(app_lower, "game") \/ contains(app_lower, "play")
        THEN {AppCategory("entertainment", "gaming", 10)}
        ELSE IF \/ contains(app_lower, "code")
                \/ contains(app_lower, "studio")
                \/ contains(app_lower, "ide")
        THEN {AppCategory("development", "ide", 90)}
        ELSE IF contains(app_lower, "chat") \/ contains(app_lower, "messenger")
        THEN {AppCategory("communication", "chat", 40)}
        ELSE IF contains(app_lower, "browser")
        THEN {AppCategory("productivity", "browser", 60)}
        ELSE {NoRecord}

\* process_for_enhanced_analysis: the record used for an app.
resolve(map, name) ==
    IF name \in DOMAIN map THEN {map[name]} ELSE categorize_app(name)

\* The table: empty, or with the user's row for Code.exe.
CategoryMaps ==
    {NoRows,
     [a \in {<<"Code", ".exe">>} |-> AppCategory("work", NoSub, 80)]}

ResolveInit ==
    /\ app_name \in AppNames
    /\ category_map \in CategoryMaps
    /\ first_record = NoRecord
    /\ second_record = NoRecord
    /\ rpc = "start"
    /\ ParseIdle
    /\ MetricIdle
    /\ FilterIdle
    /\ FetchIdle
    /\ AnalysisIdle
    /\ ProgIdle

\* An analysis resolves the app.
Resolve ==
    /\ rpc = "start"
    /\ first_record' \in resolve(category_map, app_name)
    /\ rpc' = "once"
    /\ UNCHANGED <<app_name, category_map, second_record>>
    /\ UNCHANGED <<progVars, parseVars, metricVars, filterVars, fetchVars,
                   analysisVars>>

\* The next analysis resolves it again; the table has not changed.
ResolveAgain ==
    /\ rpc = "once"
    /\ second_record' \in resolve(category_map, app_name)
    /\ rpc' = "twice"
    /\ UNCHANGED <<app_name, category_map, first_record>>
    /\ UNCHANGED <<progVars, parseVars, metricVars, filterVars, fetchVars,
                   analysisVars>>

ResolveNext == Resolve \/ ResolveAgain

ResolveSpec == ResolveInit /\ [][ResolveNext]_vars

\* ------------------------------------------ claims on category resolution
\* C20: two resolutions of the same app identifier with no change to the
\* table in between give the same category, subcategory and score.
C20_ResolveTwiceSame == rpc = "twice" => first_record = second_record

\* ------------------------------------------------------ session detector
\* detect_session_boundaries of modules/advanced_analyzer.rs on window
\* events in chronological order.  A timestamp and a duration (an f64 of
\* seconds) are counted in half seconds; every window event carries an app.

\* Whole seconds between the end of one event and the start of the next
\* above which a session ends.
SessionGap == 300

SessionApps == {"A", "B"}

\* Starts and durations, in half seconds, that give gaps of 300, 300.5
\* and 360 seconds, and a duration of 600.5 seconds.
SessionStarts == {0, 1200, 1800, 1801, 2160}
SessionDurations == {240, 1200, 1201, 1440}

SessionEvents ==
    [app : SessionApps, timestamp : SessionStarts, duration : SessionDurations]

\* 'x as i64' and Duration::num_seconds: the whole seconds of x half
\* seconds, rounded toward zero.
WholeSeconds(x) == IF x >= 0 THEN x \div 2 ELSE 0 - ((0 - x) \div 2)

\* timestamp + Duration::seconds(duration as i64)
EventEnd(event) == event.timestamp + 2 * WholeSeconds(event.duration)

\* if gap > 300
IsBoundary(gap) == gap > SessionGap

create_work_session(start, end, apps) ==
    [start |-> start, end |-> end, apps |-> apps]

\* The loop over the events from the i-th on, with the locals of the
\* function, and the push of the final session after it.
RECURSIVE SessionLoop(_, _, _, _, _, _)
SessionLoop(evs, i, session_start, session_apps, last_event_end, acc) ==
    IF i > Len(evs)
    THEN IF session_apps # {}
         THEN Append(acc, create_work_session(session_start,
                                              last_event_end,
                                              session_apps))
         ELSE acc
    ELSE LET event == evs[i]
             gap == WholeSeconds(event.timestamp - last_event_end)
             closed == IsBoundary(gap)
         IN  SessionLoop(
                 evs, i + 1,
                 IF closed THEN event.timestamp ELSE session_start,
                 (IF closed THEN {} ELSE session_apps)
                     \cup {event.app},
                 EventEnd(event),
                 IF closed /\ session_apps # {}
                 THEN Append(acc, create_work_session(session_start,
                                                      last_event_end,
                                                      session_apps))
                 ELSE acc)

detect_session_boundaries(evs) ==
    IF evs = <<>>
    THEN <<>>
    ELSE SessionLoop(evs, 1, evs[1].timestamp, {}, EventEnd(evs[1]), <<>>)

SessionInit ==
    /\ \E n \in 0..MaxEvents : session_events \in [1..n -> SessionEvents]
    /\ \A i \in 1..(Len(session_events) - 1) :
           session_events[i].timestamp <= session_events[i + 1].timestamp
    /\ sessions = <<>>
    /\ spc = "start"
    /\ SessionAlone

DetectSessions ==
    /\ spc = "start"
    /\ sessions' = detect_session_boundaries(session_events)
    /\ spc' = "done"
    /\ UNCHANGED session_events
    /\ UNCHANGED SessionFrame

SessionNext == DetectSessions

SessionSpec == SessionInit /\ [][SessionNext]_vars

\* ------------------------------------------ claims on the session detector
\* The events that start more than 300 seconds (600 half seconds) after the
\* end of the event before them.
Cuts ==
    {i \in 2..Len(session_events) :
         session_events[i].timestamp
             - (session_events[i - 1].timestamp
                    + session_events[i - 1].duration) > 600}

\* [A 0-10 min, A 10-12 min, B 18-30 min].
ExampleEvents ==
    <<[app |-> "A", timestamp |-> 0, duration |-> 1200],
      [app |-> "A", timestamp |-> 1200, duration |-> 240],
      [app |-> "B", timestamp |-> 2160, duration |-> 1440]>>

\* C23: on chronological events a session ends and the next begins
\* exactly at the gaps of more than 300 seconds between the end of one
\* event and the start of the next; the example gives two sessions, split
\* at its gap.
C23_SplitExactlyAtGaps ==
    spc = "done" =>
        /\ Len(sessions)
               = (IF session_events = <<>> THEN 0 ELSE 1 + Cardinality(Cuts))
        /\ \A i \in Cuts :
               \E k \in 1..(Len(sessions) - 1) :
                   sessions[k + 1].start = session_events[i].timestamp
        /\ session_events = ExampleEvents =>
               sessions = <<[start |-> 0, end |-> 1440, apps |-> {"A"}],
                            [start |-> 2160, end |-> 3600, apps |-> {"B"}]>>

\* --------------------------------------------------- per-field extraction
\* The last stage of parse_llm_response, in lib.rs and in
\* modules/ai_integration.rs: a text that is not JSON is searched field by
\* field, and a field extract_field does not find takes its default.  The
\* text is given by what extract_field returns for each field; the four
\* fields the two LLMAnalysis structs share are kept.

StringFields ==
    {"current_state", "focus_trend", "distraction_trend", "confidence"}

\* Values a reply carries for a field.
FieldValues == {"flow", "high"}

\* The two copies of parse_llm_response.
Builds == {"lib", "modules"}

\* extract_field(cleaned_response, field_name), None being NoField.
extract_field(text, field_name) == text[field_name]

\* Option::unwrap_or
unwrap_or(option, default) == IF option = NoField THEN default ELSE option

\* The unwrap_or arguments of lib.rs.
LibDefaults ==
    [current_state |-> "working", focus_trend |-> "stable",
     distraction_trend |-> "low", confidence |-> "medium"]

\* The unwrap_or arguments of modules/ai_integration.rs.
ModulesDefaults ==
    [current_state |-> "working", focus_trend |-> "variable",
     distraction_trend |-> "moderate", confidence |-> "low"]

FieldDefaults(build) == IF build = "lib" THEN LibDefaults ELSE ModulesDefaults

\* The LLMAnalysis built field by field.
extract_fields(text, build) ==
    [f \in StringFields |->
        unwrap_or(extract_field(text, f), FieldDefaults(build)[f])]

FallbackInit ==
    /\ fallback_text \in [StringFields -> FieldValues \cup {NoField}]
    /\ fallback_build \in Builds
    /\ fallback_analysis = <<>>
    /\ FallbackAlone

ExtractFields ==
    /\ fallback_analysis = <<>>
    /\ fallback_analysis' = extract_fields(fallback_text, fallback_build)
    /\ UNCHANGED <<fallback_text, fallback_build>>
    /\ UNCHANGED FallbackFrame

FallbackNext == ExtractFields

FallbackSpec == FallbackInit /\ [][FallbackNext]_vars

\* --------------------------------------- claims on per-field extraction
\* C24: a field the per-field extraction does not find takes its named
\* default: the state defaults to "working", the confidence to "medium".
C24_MissingFieldsTakeDefaults ==
    fallback_analysis # <<>> =>
        /\ fallback_text["current_state"] = NoField
               => fallback_analysis["current_state"] = "working"
        /\ fallback_text["confidence"] = NoField
               => fallback_analysis["confidence"] = "medium"

\* --------------------------------------------------------- category lookup
\* The category and the score an analysis uses for the app of a window
\* event, at each place that looks one up: the timeline of
\* process_for_enhanced_analysis (build_detailed_timeline on the map
\* completed from the default table), the activities of its local metrics,
\* and the activities of process_activity_data.

LookupSites == {"timeline", "metrics", "simplified"}

\* process_for_enhanced_analysis: the map after the loop that adds the
\* default category of an app without a row, as a set of possible records
\* for one app; {NoRecord} when the map has no entry for it.
completed_map(map, name) ==
    IF name \in DOMAIN map THEN {map[name]} ELSE categorize_app(name)

\* build_detailed_timeline: category_map.get(&app_name) or
\* ("uncategorized", None, 50).
build_detailed_timeline(map, name) ==
    {IF r = NoRecord
     THEN AppCategory("uncategorized", NoSub, UncategorizedScore)
     ELSE r : r \in completed_map(map, name)}

\* The activities of the local metrics: category_map.get(app_name) or
\* ("other", None).
metric_activity(map, name) ==
    {IF r = NoRecord
     THEN AppCategory("other", NoSub, NoScore)
     ELSE AppCategory(r.category, NoSub, r.productivity_score) :
         r \in completed_map(map, name)}

\* process_activity_data: the row of the table, else categorize_app, else
\* ("other", None).
process_activity_data(map, name) ==
    IF name \in DOMAIN map
    THEN {AppCategory(map[name].category, NoSub,
                      map[name].productivity_score)}
    ELSE {IF r = NoRecord
          THEN AppCategory("other", NoSub, NoScore)
          ELSE AppCategory(r.category, NoSub, r.productivity_score) :
              r \in categorize_app(name)}

lookup(site, map, name) ==
    CASE site = "timeline" -> build_detailed_timeline(map, name)
      [] site = "metrics" -> metric_activity(map, name)
      [] OTHER -> process_activity_data(map, name)

LookupInit ==
    /\ lookup_app \in AppNames
    /\ lookup_map \in CategoryMaps
    /\ lookup_site \in LookupSites
    /\ lookup_record = NoRecord
    /\ LookupAlone

Lookup ==
    /\ lookup_record = NoRecord
    /\ lookup_record' \in lookup(lookup_site, lookup_map, lookup_app)
    /\ UNCHANGED <<lookup_app, lookup_map, lookup_site>>
    /\ UNCHANGED LookupFrame

LookupNext == Lookup

LookupSpec == LookupInit /\ [][LookupNext]_vars

\* ------------------------------------------------ claims on category lookup
\* The lower-cased identifier is a key of the default table.
ExactDefault ==
    /\ Len(lookup_app) = 1
    /\ Lower(lookup_app[1]) \in DOMAIN get_default_app_categories

\* C25: the category and score used for an app come from its row of the
\* table when it has one, else from the exact entry of the default table,
\* else from the table's substring and keyword matches, and are
\* "uncategorized" with score 50 when none of these matches.
C25_ResolutionOrder ==
    lookup_record # NoRecord =>
        IF lookup_app \in DOMAIN lookup_map
        THEN /\ lookup_record.category = lookup_map[lookup_app].category
             /\ lookup_record.productivity_score
                    = lookup_map[lookup_app].productivity_score
        ELSE IF ExactDefault
        THEN LET cat == get_default_app_categories[Lower(lookup_app[1])]
             IN  /\ lookup_record.category = cat.category
                 /\ lookup_record.productivity_score = cat.productivity_score
        ELSE IF categorize_app(lookup_app) # {NoRecord}
        THEN \E cat \in categorize_app(lookup_app) :
                 /\ lookup_record.category = cat.category
                 /\ lookup_record.productivity_score = cat.productivity_score
        ELSE /\ lookup_record.category = "uncategorized"
             /\ lookup_record.productivity_score = 50

\* ----------------------------------------------------- batched requests
\* auto_categorize_apps, run by background_activity_sync every five
\* minutes, and categorize_all_apps, run by the sync command, with up to
\* MaxStoredApps apps: which apps a request names and which rows its reply
\* writes.  Apps are numbered in the order of their names, the order of
\* get_uncategorized_apps (ORDER BY app_name) and of sorted_apps.sort().

BatchApps == 1..MaxStoredApps

\* A key of a reply that is the name of no stored app.
OtherName == 0

BatchPasses == {"auto_categorize_apps", "categorize_all_apps"}

\* get_uncategorized_apps: the stored apps without a row.
uncategorized == stored_apps \ categorized

\* into_iter().take(n) and chunks(n).next() on a sorted list.
take(apps, n) == {a \in apps : Cardinality({b \in apps : b < a}) < n}

\* The object keys a reply can carry for a request: none (also a text
\* that is no JSON object), every app of the request, or one name, asked
\* for or not.
ReplyKeys(request) ==
    {{}, request} \cup {{a} : a \in BatchApps \cup {OtherName}}

BatchInit ==
    /\ \E n \in 1..MaxStoredApps : stored_apps = 1..n
    /\ categorized = {}
    /\ batch_pass = "none"
    /\ batch = {}
    /\ queue = {}
    /\ BatchAlone

\* A pass starts.  It returns at once when no app is uncategorized, and
\* the background pass when the probe of the backend fails; else the first
\* request goes out with the first BatchSize apps.
BatchBegin(p, ollamaUp) ==
    /\ batch_pass = "none"
    /\ uncategorized # {}
    /\ IF p = "auto_categorize_apps" /\ ~ollamaUp
       THEN UNCHANGED <<batch_pass, batch, queue>>
       ELSE /\ batch_pass' = p
            /\ batch' = take(uncategorized, BatchSize)
            /\ queue' = IF p = "categorize_all_apps"
                        THEN uncategorized \ take(uncategorized, BatchSize)
                        ELSE {}
    /\ UNCHANGED <<stored_apps, categorized>>
    /\ UNCHANGED BatchFrame

\* call_ollama_api returns.  On Ok every key of the reply whose value is
\* an object is upserted by set_app_category; on Err nothing is written.
\* categorize_all_apps goes on with its next chunk, the background pass
\* ends.
BatchReply(ok, keys) ==
    /\ batch_pass # "none"
    /\ categorized' = IF ok THEN categorized \cup keys ELSE categorized
    /\ IF queue # {}
       THEN /\ batch' = take(queue, BatchSize)
            /\ queue' = queue \ take(queue, BatchSize)
            /\ UNCHANGED batch_pass
       ELSE /\ batch' = {}
            /\ batch_pass' = "none"
            /\ UNCHANGED queue
    /\ UNCHANGED stored_apps
    /\ UNCHANGED BatchFrame

BatchNext ==
    \/ \E p \in BatchPasses, ollamaUp \in BOOLEAN : BatchBegin(p, ollamaUp)
    \/ \E ok \in BOOLEAN, keys \in ReplyKeys(batch) :
           BatchReply(ok, keys)

BatchSpec == BatchInit /\ [][BatchNext]_vars

\* The background task runs a pass every five minutes for ever, whatever
\* the sync command does in between, and the backend is up and answers.
BatchFairSpec ==
    /\ BatchSpec
    /\ SF_vars(BatchBegin("auto_categorize_apps", TRUE))
    /\ WF_vars(\E keys \in ReplyKeys(batch) :
                   BatchReply(TRUE, keys))

\* ---------------------------------------------- claims on batched requests
\* C27: a request names at most 10 apps, and the rows a reply creates or
\* updates are rows of apps of that request.
C27_WritesOnlyTheBatch ==
    [][/\ Cardinality(batch') <= 10
       /\ categorized' \subseteq categorized \cup batch]_vars

\* C28: while passes keep running and the backend answers, an app without
\* a row is in a request sooner or later (or has got its row meanwhile).
C28_NoAppStarved ==
    \A a \in BatchApps :
        (a \in stored_apps /\ a \notin categorized)
            ~> (a \in batch \/ a \in categorized)

\* ------------------------------------------------ per-timeframe statistics
\* The loop that counts context switches and collects the unique apps of a
\* timeframe: in get_multi_timeframe_data_active of
\* modules/activity_watch.rs over the events as fetched, and in
\* process_window_events_for_llm of lib.rs over the events sorted by
\* timestamp, without those under five seconds.  Every event has an app.

\* App identifiers, two of them equal up to letter case.
StatApps == {"Code", "code", "Discord"}

\* The events of a timeframe in the order fetched: their timestamps are a
\* permutation of 1..n; short is TRUE for a duration under 0.08 minutes.
StatEvents(n) ==
    {evs \in [1..n -> [app : StatApps, timestamp : 1..n, short : BOOLEAN]] :
         \A i, j \in 1..n : i # j => evs[i].timestamp # evs[j].timestamp}

\* sorted_events.sort_by_key(|e| e.timestamp)
sort_by_key(evs) ==
    [i \in 1..Len(evs) |->
        CHOOSE e \in {evs[k] : k \in 1..Len(evs)} : e.timestamp = i]

\* The loop of modules/activity_watch.rs from the i-th event on; last_app
\* is "" before the first event.
RECURSIVE ModulesStatLoop(_, _, _, _, _)
ModulesStatLoop(evs, i, last_app, unique_apps, context_switches) ==
    IF i > Len(evs)
    THEN [context_switches |-> context_switches, unique_apps |-> unique_apps]
    ELSE LET app == evs[i].app
         IN  ModulesStatLoop(
                 evs, i + 1, app, unique_apps \cup {app},
                 IF last_app # "" /\ last_app # app
                 THEN context_switches + 1 ELSE context_switches)

\* The loop of lib.rs from the i-th event on; last_app is "" for None.
RECURSIVE LibStatLoop(_, _, _, _, _)
LibStatLoop(evs, i, last_app, unique_apps, context_switches) ==
    IF i > Len(evs)
    THEN [context_switches |-> context_switches, unique_apps |-> unique_apps]
    ELSE IF evs[i].short
    THEN LibStatLoop(evs, i + 1, last_app, unique_apps, context_switches)
    ELSE LET app == Lower(evs[i].app)
         IN  LibStatLoop(
                 evs, i + 1, app, unique_apps \cup {app},
                 IF last_app # "" /\ last_app # app
                 THEN context_switches + 1 ELSE context_switches)

timeframe_statistics(build, evs) ==
    IF build = "lib"
    THEN LibStatLoop(sort_by_key(evs), 1, "", {}, 0)
    ELSE ModulesStatLoop(evs, 1, "", {}, 0)

StatInit ==
    /\ \E n \in 0..MaxStatEvents : stat_events \in StatEvents(n)
    /\ stat_build \in Builds
    /\ statistics = NoStatistics
    /\ StatAlone

ComputeStatistics ==
    /\ statistics = NoStatistics
    /\ statistics' = timeframe_statistics(stat_build, stat_events)
    /\ UNCHANGED <<stat_events, stat_build>>
    /\ UNCHANGED StatFrame

StatNext == ComputeStatistics

StatSpec == StatInit /\ [][StatNext]_vars

\* ---------------------------------------- claims on per-timeframe statistics
\* The events in chronological order.
Chronological ==
    [i \in 1..Len(stat_events) |->
        CHOOSE e \in {stat_events[k] : k \in 1..Len(stat_events)} :
            e.timestamp = i]

\* The events whose lower-cased app differs from that of the event just
\* before them in chronological order.
AppChanges ==
    {i \in 2..Len(stat_events) :
         Lower(Chronological[i].app) # Lower(Chronological[i - 1].app)}

\* C29: a context switch is counted only where the lower-cased app of an
\* event differs from that of the event just before it in chronological
\* order, and the unique apps are collected without regard to letter case:
\* no two of them differ only in case.
C29_CaseInsensitiveStatistics ==
    statistics # NoStatistics =>
        /\ statistics.context_switches <= Cardinality(AppChanges)
        /\ \A a, b \in statistics.unique_apps : Lower(a) = Lower(b) => a = b

\* -------------------------------------------------------- pattern analyzer
\* process_interaction, analyze_current_patterns and train_baseline of
\* modules/pattern_analyzer.rs, called by the commands of
\* tauri_commands.rs from concurrent tasks.  Each guard is a tokio Mutex:
\* lock().await waits until the mutex is free, and a guard is dropped at
\* the end of its scope.

Operations ==
    {"process_interaction", "analyze_current_patterns", "train_baseline"}

\* What user_baseline holds: None, or a baseline, in training
\* (is_trained false) or trained.  set_baseline stores the UserBaseline it
\* is given; AppState::new gives it the baseline_data that get_baseline
\* deserializes.
BaselineStates == {"none", "untrained", "trained"}

\* analyze_current_patterns: its two locks, in the order it takes them.
analyze_locks == <<"current_metrics", "user_baseline">>

\* if let Some(ref base) = *baseline { if !base.is_trained { .. } }
in_training(baseline) == baseline = "untrained"

\* if training_data.len() < 1000 { return Err(..) }
insufficient(len) == len < MinTrainingPoints

\* The guard an invocation is waiting for at a lock().await.
Wanted(at) ==
    CASE at = "pi_current" -> "current_metrics"
      [] at = "pi_baseline" -> "user_baseline"
      [] at = "pi_training" -> "training_data"
      [] at = "an_first" -> analyze_locks[1]
      [] at = "an_second" -> analyze_locks[2]
      [] at = "tr_training" -> "training_data"
      [] at = "tr_baseline" -> "user_baseline"
      [] OTHER -> "none"

Waiting(t) == Wanted(lock_pc[t]) # "none"

\* Where an invocation goes on once it holds the guard it waited for.
AfterLock(at, baseline, len) ==
    CASE at = "pi_current" -> "pi_baseline"
      [] at = "pi_baseline" ->
             IF in_training(baseline) THEN "pi_training" ELSE "pi_return"
      [] at = "pi_training" -> "pi_pushed"
      [] at = "an_first" -> "an_second"
      [] at = "an_second" -> "an_return"
      [] at = "tr_training" ->
             IF insufficient(len) THEN "tr_return" ELSE "tr_baseline"
      [] OTHER -> "tr_return"

FirstStep(op) ==
    CASE op = "process_interaction" -> "pi_current"
      [] op = "analyze_current_patterns" -> "an_first"
      [] OTHER -> "tr_training"

LockInit ==
    /\ lock_pc = [t \in AnalyzerCallers |-> "idle"]
    /\ holder = [g \in Guards |-> Free]
    /\ user_baseline \in BaselineStates
    /\ metrics_empty = TRUE
    /\ training_len = 0
    /\ LockAlone

\* A command calls an operation of the analyzer.
Invoke(t, op) ==
    /\ lock_pc[t] = "idle"
    /\ lock_pc' = [lock_pc EXCEPT ![t] = FirstStep(op)]
    /\ UNCHANGED <<holder, user_baseline, metrics_empty, training_len>>
    /\ UNCHANGED LockFrame

\* lock().await returns the guard, and the invocation runs to its next
\* await or return.  process_interaction pushes the metrics and keeps
\* those of the last hour, which may or may not leave any (kept); with the
\* training guard it pushes to training_data; train_baseline stores the
\* baseline it calculated.
Lock(t, kept) ==
    /\ Waiting(t)
    /\ holder[Wanted(lock_pc[t])] = Free
    /\ holder' = [holder EXCEPT ![Wanted(lock_pc[t])] = t]
    /\ lock_pc' = [lock_pc EXCEPT ![t] =
                       AfterLock(lock_pc[t], user_baseline, training_len)]
    /\ metrics_empty' =
           IF lock_pc[t] = "pi_current" THEN ~kept ELSE metrics_empty
    /\ training_len' =
           IF lock_pc[t] = "pi_training" /\ training_len < MinTrainingPoints
           THEN training_len + 1 ELSE training_len
    /\ user_baseline' =
           IF lock_pc[t] = "tr_baseline" THEN "trained" ELSE user_baseline
    /\ UNCHANGED LockFrame

\* The end of a scope: the training guard of process_interaction is
\* dropped at the end of its block, every other guard when the function
\* returns.
Return(t) ==
    /\ lock_pc[t] \in {"pi_pushed", "pi_return", "an_return", "tr_return"}
    /\ IF lock_pc[t] = "pi_pushed"
       THEN /\ holder' = [holder EXCEPT !["training_data"] = Free]
            /\ lock_pc' = [lock_pc EXCEPT ![t] = "pi_return"]
       ELSE /\ holder' = [g \in Guards |->
                             IF holder[g] = t THEN Free ELSE holder[g]]
            /\ lock_pc' = [lock_pc EXCEPT ![t] = "idle"]
    /\ UNCHANGED <<user_baseline, metrics_empty, training_len>>
    /\ UNCHANGED LockFrame

LockNext ==
    \/ \E t \in AnalyzerCallers, op \in Operations : Invoke(t, op)
    \/ \E t \in AnalyzerCallers, kept \in BOOLEAN : Lock(t, kept)
    \/ \E t \in AnalyzerCallers : Return(t)

LockSpec == LockInit /\ [][LockNext]_vars

\* ------------------------------------------- claims on the pattern analyzer
\* The invocations of S wait for guards held inside S: none of them can
\* ever go on.
Deadlocked(S) ==
    /\ S # {}
    /\ \A t \in S : Waiting(t) /\ holder[Wanted(lock_pc[t])] \in S

====
